---- MODULE Spec2Model ----
(***************************************************************************)
(* github-sync: mirroring of branches and tags from a source repository    *)
(* to a destination repository (standard Git host or Gerrit).              *)
(*                                                                         *)
(* The model follows src/src/gerrit.js: the Gerrit flow (lines 1-540) and  *)
(* the standard flow with run() (lines 542-1365).  The git command-line    *)
(* tool and the two remotes are the environment: commits form a fixed      *)
(* history graph, the remotes hold branch heads and tags, and every git    *)
(* invocation the code makes is a step that reads or changes them.         *)
(***************************************************************************)
EXTENDS Integers, Sequences, FiniteSets, TLC

(***************************************************************************)
(* Bounds                                                                  *)
(***************************************************************************)
\* number of successive runs of the action over the same two repositories
MaxRuns == 2

(***************************************************************************)
(* Text.  JavaScript strings are spelled as tuples of one-character        *)
(* strings so that includes / startsWith / replace / trim / RegExp.test    *)
(* are computed the way the code computes them.                            *)
(***************************************************************************)
NULL == "null"          \* JavaScript null: a ref that does not resolve

Spell(s) ==
  CASE s = "main"       -> <<"m","a","i","n">>
    [] s = "master"     -> <<"m","a","s","t","e","r">>
    [] s = "develop"    -> <<"d","e","v","e","l","o","p">>
    [] s = "old-HEAD"   -> <<"o","l","d","-","H","E","A","D">>
    [] s = "production" -> <<"p","r","o","d","u","c","t","i","o","n">>
    [] s = "stale"      -> <<"s","t","a","l","e">>
    [] s = "HEAD"       -> <<"H","E","A","D">>
    [] s = "origin/"    -> <<"o","r","i","g","i","n","/">>
    [] s = "source/"    -> <<"s","o","u","r","c","e","/">>
    [] s = "->"         -> <<"-",">">>
    [] s = " -> "       -> <<" ","-",">"," ">>
    [] s = "refs/for/"  -> <<"r","e","f","s","/","f","o","r","/">>
    [] s = "refs/changes/" -> <<"r","e","f","s","/","c","h","a","n","g","e","s","/">>
    [] s = "gerrit"     -> <<"g","e","r","r","i","t">>
    [] s = ":29418"     -> <<":","2","9","4","1","8">>
    [] s = "/r/"        -> <<"/","r","/">>
    [] s = "https://github.com/o/r.git" ->
         <<"h","t","t","p","s",":","/","/","g","i","t","h","u","b",".","c","o","m",
           "/","o","/","r",".","g","i","t">>
    [] s = "https://Gerrit.example.com/p" ->
         <<"h","t","t","p","s",":","/","/","G","e","r","r","i","t",".","e","x","a",
           "m","p","l","e",".","c","o","m","/","p">>
    [] s = "ssh://review.example.com:29418/p" ->
         <<"s","s","h",":","/","/","r","e","v","i","e","w",".","e","x","a","m","p",
           "l","e",".","c","o","m",":","2","9","4","1","8","/","p">>
    [] s = "https://code.example.com/r/p" ->
         <<"h","t","t","p","s",":","/","/","c","o","d","e",".","e","x","a","m","p",
           "l","e",".","c","o","m","/","r","/","p">>
    [] s = "v1"         -> <<"v","1">>
    [] s = "v2"         -> <<"v","2">>
    [] s = "rc1"        -> <<"r","c","1">>
    [] s = "v"          -> <<"v">>
    [] s = "true"       -> <<"t","r","u","e">>
    [] s = "git@"       -> <<"g","i","t","@">>
    [] s = "ssh://"     -> <<"s","s","h",":","/","/">>
    [] s = "https://"   -> <<"h","t","t","p","s",":","/","/">>
    [] s = "git@github.com:o/r.git" ->
         <<"g","i","t","@","g","i","t","h","u","b",".","c","o","m",":","o","/","r",
           ".","g","i","t">>
    [] s = "https://x-access-token:" ->
         <<"h","t","t","p","s",":","/","/","x","-","a","c","c","e","s","s","-","t",
           "o","k","e","n",":">>
    [] s = "@"          -> <<"@">>
    [] s = "tokG"       -> <<"t","o","k","G">>
    [] s = "tokS"       -> <<"t","o","k","S">>
    [] s = "tokD"       -> <<"t","o","k","D">>
    [] s = "tokA"       -> <<"t","o","k","A">>
    [] s = ""           -> << >>

\* String.prototype.includes
Includes(str, sub) ==
  \E i \in 1..(Len(str) - Len(sub) + 1) : SubSeq(str, i, i + Len(sub) - 1) = sub

\* String.prototype.startsWith
StartsWith(str, pre) ==
  Len(str) >= Len(pre) /\ SubSeq(str, 1, Len(pre)) = pre

\* String.prototype.replace(pattern, "") with a string pattern: the first
\* occurrence only is removed
RemoveFirst(str, pat) ==
  IF ~Includes(str, pat) THEN str
  ELSE LET i == CHOOSE k \in 1..(Len(str) - Len(pat) + 1) :
                  /\ SubSeq(str, k, k + Len(pat) - 1) = pat
                  /\ \A j \in 1..(k - 1) : SubSeq(str, j, j + Len(pat) - 1) # pat
       IN  SubSeq(str, 1, i - 1) \o SubSeq(str, i + Len(pat), Len(str))

\* String.prototype.replace(pattern, replacement) with a string pattern: the
\* first occurrence only is replaced
ReplaceFirst(str, pat, by) ==
  IF ~Includes(str, pat) THEN str
  ELSE LET i == CHOOSE k \in 1..(Len(str) - Len(pat) + 1) :
                  /\ SubSeq(str, k, k + Len(pat) - 1) = pat
                  /\ \A j \in 1..(k - 1) : SubSeq(str, j, j + Len(pat) - 1) # pat
       IN  SubSeq(str, 1, i - 1) \o by \o SubSeq(str, i + Len(pat), Len(str))

\* String.prototype.trim
RECURSIVE Trim(_)
Trim(str) ==
  IF str = << >> THEN str
  ELSE IF Head(str) = " " THEN Trim(Tail(str))
  ELSE IF str[Len(str)] = " " THEN Trim(SubSeq(str, 1, Len(str) - 1))
  ELSE str

\* the i flag of a RegExp: letters compare without case
LowerChar(c) ==
  CASE c = "G" -> "g" [] c = "E" -> "e" [] c = "R" -> "r" [] c = "I" -> "i"
    [] c = "T" -> "t" [] c = "H" -> "h" [] c = "A" -> "a" [] c = "D" -> "d"
    [] OTHER -> c

Lower(str) == [i \in 1..Len(str) |-> LowerChar(str[i])]

(***************************************************************************)
(* Commits.  A fixed history: c1 <- c2 <- c3, c2 <- c4, and a second root  *)
(* c5 that shares no history with the others.                              *)
(***************************************************************************)
Commits == {"c1", "c2", "c3", "c4", "c5"}

Parent(c) ==
  CASE c = "c1" -> NULL
    [] c = "c2" -> "c1"
    [] c = "c3" -> "c2"
    [] c = "c4" -> "c2"
    [] c = "c5" -> NULL

\* the commits reachable from c, c included
RECURSIVE Ancestors(_)
Ancestors(c) == IF c = NULL THEN {} ELSE {c} \cup Ancestors(Parent(c))

\* the output of git merge-base a b: the best common ancestor, or nothing
MergeBaseOutput(a, b) ==
  LET common == Ancestors(a) \cap Ancestors(b)
  IN  IF common = {} THEN ""
      ELSE CHOOSE m \in common : \A x \in common : x \in Ancestors(m)

(***************************************************************************)
(* Repository kind                                                         *)
(***************************************************************************)
\* isGerritRepository without the i flag on /gerrit/
isGerritRepository_CaseSensitive(repoUrl) ==
  \/ Includes(Spell(repoUrl), Spell("gerrit"))
  \/ Includes(Spell(repoUrl), Spell(":29418"))
  \/ Includes(Spell(repoUrl), Spell("/r/"))

\* isGerritRepository: /gerrit/i, /:29418/ or /\/r\// matches the URL
isGerritRepository(repoUrl) ==
  \/ Includes(Lower(Spell(repoUrl)), Spell("gerrit"))
  \/ Includes(Spell(repoUrl), Spell(":29418"))
  \/ Includes(Spell(repoUrl), Spell("/r/"))

(***************************************************************************)
(* RefResolver                                                             *)
(***************************************************************************)
\* git rev-parse <remote>/<name> against the remote-tracking refs of the
\* working tree: exit code 0 and the commit, or exit code 128 with the
\* argument echoed on stdout
RevParse(remote, refs, name) ==
  IF refs[name] # NULL THEN [exitCode |-> 0, stdout |-> refs[name]]
  ELSE [exitCode |-> 128, stdout |-> remote \o name]

\* getRefCommit: null on a nonzero exit code or empty output
getRefCommit(rp) ==
  IF rp.exitCode # 0 THEN NULL
  ELSE IF rp.stdout = "" THEN NULL ELSE rp.stdout

\* getRefCommitGerrit
getRefCommitGerrit(rp) ==
  IF rp.exitCode # 0 THEN NULL
  ELSE IF rp.stdout = "" THEN NULL ELSE rp.stdout

\* getMergeBase: the trimmed output of git merge-base, or null when it is
\* empty; an exception of exec is caught and gives null as well
getMergeBase(spawned, stdout) ==
  IF ~spawned THEN NULL
  ELSE IF stdout = "" THEN NULL ELSE stdout

\* getMergeBaseGerrit
getMergeBaseGerrit(spawned, stdout) ==
  IF ~spawned THEN NULL
  ELSE IF stdout = "" THEN NULL ELSE stdout

(***************************************************************************)
(* DivergenceClassifier                                                    *)
(***************************************************************************)
\* hasDestinationBeenModified, as a function of what getRefCommit returned
\* for the two refs and of what getMergeBase returns for them
hasDestinationBeenModified(destCommit, sourceCommit, mergeBase) ==
  IF destCommit = NULL
    THEN [isModified |-> FALSE, details |-> "Destination branch does not exist"]
  ELSE IF sourceCommit = NULL
    THEN [isModified |-> FALSE, details |-> "Source branch does not exist"]
  ELSE IF mergeBase = NULL
    THEN [isModified |-> FALSE, details |-> "No common history"]
  ELSE IF destCommit # mergeBase
    THEN [isModified |-> TRUE, details |-> "Destination has diverged"]
    ELSE [isModified |-> FALSE, details |-> "Destination is clean"]

\* hasDestinationBeenModifiedGerrit with the merge base looked at before the
\* source commit
hasDestinationBeenModifiedGerrit_MergeBaseFirst(destCommit, sourceCommit, mergeBase) ==
  IF destCommit = NULL
    THEN [isModified |-> FALSE, details |-> "Destination branch does not exist"]
  ELSE IF mergeBase = NULL
    THEN [isModified |-> FALSE, details |-> "No common history"]
  ELSE IF sourceCommit = NULL
    THEN [isModified |-> FALSE, details |-> "Source branch does not exist"]
  ELSE IF destCommit # mergeBase
    THEN [isModified |-> TRUE, details |-> "Destination has diverged"]
    ELSE [isModified |-> FALSE, details |-> "Destination is clean"]

\* hasDestinationBeenModifiedGerrit
hasDestinationBeenModifiedGerrit(destCommit, sourceCommit, mergeBase) ==
  IF destCommit = NULL
    THEN [isModified |-> FALSE, details |-> "Destination branch does not exist"]
  ELSE IF sourceCommit = NULL
    THEN [isModified |-> FALSE, details |-> "Source branch does not exist"]
  ELSE IF mergeBase = NULL
    THEN [isModified |-> FALSE, details |-> "No common history"]
  ELSE IF destCommit # mergeBase
    THEN [isModified |-> TRUE, details |-> "Destination has diverged"]
    ELSE [isModified |-> FALSE, details |-> "Destination is clean"]

\* isSourceAheadOfDestination with a missing destination reported as not
\* ahead, which sends a new branch to the push with --force
isSourceAheadOfDestination_NewBranchNotAhead(destCommit, sourceCommit, mergeBase) ==
  IF destCommit = NULL THEN FALSE
  ELSE IF sourceCommit = NULL THEN FALSE
  ELSE IF mergeBase = NULL THEN FALSE
  ELSE mergeBase = destCommit /\ sourceCommit # destCommit

\* isSourceAheadOfDestination: true selects the push without --force
isSourceAheadOfDestination(destCommit, sourceCommit, mergeBase) ==
  IF destCommit = NULL THEN TRUE
  ELSE IF sourceCommit = NULL THEN FALSE
  ELSE IF mergeBase = NULL THEN FALSE
  ELSE mergeBase = destCommit /\ sourceCommit # destCommit

\* isSourceAheadOfDestinationGerrit
isSourceAheadOfDestinationGerrit(destCommit, sourceCommit, mergeBase) ==
  IF destCommit = NULL THEN TRUE
  ELSE IF sourceCommit = NULL THEN FALSE
  ELSE IF mergeBase = NULL THEN FALSE
  ELSE mergeBase = destCommit /\ sourceCommit # destCommit

\* hasDestinationBeenModified of the shared module without the guard on a
\* missing source commit
hasDestinationBeenModifiedUtil_NoSourceGuard(destCommit, sourceCommit, mergeBase) ==
  IF destCommit = NULL
    THEN [isModified |-> FALSE, details |-> "Destination branch does not exist"]
  ELSE IF mergeBase = NULL
    THEN [isModified |-> FALSE, details |-> "No common history"]
  ELSE IF destCommit # mergeBase
    THEN [isModified |-> TRUE, details |-> "Destination has diverged"]
    ELSE [isModified |-> FALSE, details |-> "Destination is clean"]

\* hasDestinationBeenModified of the shared git utilities module
hasDestinationBeenModifiedUtil(destCommit, sourceCommit, mergeBase) ==
  IF destCommit = NULL
    THEN [isModified |-> FALSE, details |-> "Destination branch does not exist"]
  ELSE IF sourceCommit = NULL
    THEN [isModified |-> FALSE, details |-> "Source branch does not exist"]
  ELSE IF mergeBase = NULL
    THEN [isModified |-> FALSE, details |-> "No common history"]
  ELSE IF destCommit # mergeBase
    THEN [isModified |-> TRUE, details |-> "Destination has diverged"]
    ELSE [isModified |-> FALSE, details |-> "Destination is clean"]

\* getMergeBase of the shared git utilities module
getMergeBaseUtil(spawned, stdout) ==
  IF ~spawned THEN NULL
  ELSE IF stdout = "" THEN NULL ELSE stdout

(***************************************************************************)
(* BranchMapper                                                            *)
(***************************************************************************)
\* the branch names of the model, in the order git branch -r lists them
BranchOrder == <<"main", "master", "old-HEAD", "production", "stale">>
Names == {BranchOrder[i] : i \in 1..Len(BranchOrder)}

\* the name a spelled branch name stands for
Unspell(chars) == CHOOSE n \in Names \cup {"HEAD"} : Spell(n) = chars

\* the lines git branch -r prints for one remote: two spaces of indent, the
\* remote's name, the branch
RemoteLines(remote, refs) ==
  LET present == SelectSeq(BranchOrder, LAMBDA n : refs[n] # NULL)
  IN  [i \in 1..Len(present) |-> <<" ", " ">> \o Spell(remote) \o Spell(present[i])]

\* the branches HEAD of the destination repository names in the runs of
\* the model (the refs do not determine it): the host's default, main, or
\* production
HeadTargets == {"main", "production"}

\* origin/HEAD -> origin/<head>, present in the clone when the branch HEAD
\* of the destination names exists
HeadLine(refs, head) ==
  IF refs[head] = NULL THEN << >>
  ELSE << <<" ", " ">> \o Spell("origin/") \o Spell("HEAD") \o Spell(" -> ")
             \o Spell("origin/") \o Spell(head) >>

\* the output of git branch -r in the working tree
BranchDashR(originRefs, sourceRefs, head) ==
  HeadLine(originRefs, head) \o RemoteLines("origin/", originRefs)
                             \o RemoteLines("source/", sourceRefs)

\* getSourceBranches: lines starting with source/ and without ->
getSourceBranches(lines) ==
  LET trimmed == [i \in 1..Len(lines) |-> Trim(lines[i])]
      kept    == SelectSeq(trimmed, LAMBDA l :
                   StartsWith(l, Spell("source/")) /\ ~Includes(l, Spell("->")))
  IN  [i \in 1..Len(kept) |-> Unspell(RemoveFirst(kept[i], Spell("source/")))]

\* getSourceBranchesGerrit: refs/for/ and refs/changes/ are excluded too
getSourceBranchesGerrit(lines) ==
  LET trimmed == [i \in 1..Len(lines) |-> Trim(lines[i])]
      kept    == SelectSeq(trimmed, LAMBDA l :
                   /\ StartsWith(l, Spell("source/"))
                   /\ ~Includes(l, Spell("->"))
                   /\ ~Includes(l, Spell("refs/for/"))
                   /\ ~Includes(l, Spell("refs/changes/")))
  IN  [i \in 1..Len(kept) |-> Unspell(RemoveFirst(kept[i], Spell("source/")))]

\* the destination branches syncBranches lists: non-empty lines without HEAD
\* that start with origin/
getDestinationBranches(lines) ==
  LET trimmed == [i \in 1..Len(lines) |-> Trim(lines[i])]
      kept    == SelectSeq(trimmed, LAMBDA l :
                   /\ l # << >>
                   /\ ~Includes(l, Spell("HEAD"))
                   /\ StartsWith(l, Spell("origin/")))
  IN  [i \in 1..Len(kept) |-> Unspell(RemoveFirst(kept[i], Spell("origin/")))]

SeqToSet(q) == {q[i] : i \in 1..Len(q)}

\* branchMapping: the configured source branch goes to the configured
\* destination branch, every other branch to its own name
branchMapping(sourceBranchNames, sourceBranch, destinationBranch) ==
  [b \in SeqToSet(sourceBranchNames) |->
     IF b = sourceBranch THEN destinationBranch ELSE b]

\* branchesToDelete: the destination branches that are no value of the mapping
branchesToDelete(destinationBranches, mapping) ==
  SelectSeq(destinationBranches,
            LAMBDA b : b \notin {mapping[k] : k \in DOMAIN mapping})

\* Array.prototype.includes on the list of available branches
Available(availableBranches, b) == b \in SeqToSet(availableBranches)

\* getTryFallbackBranch with the fallback options in the order master, main
getTryFallbackBranch_MasterFirst(availableBranches) ==
  IF Available(availableBranches, "master") THEN "master"
  ELSE IF Available(availableBranches, "main") THEN "main"
  ELSE NULL

\* getTryFallbackBranch: main first, then master
getTryFallbackBranch(availableBranches) ==
  IF Available(availableBranches, "main") THEN "main"
  ELSE IF Available(availableBranches, "master") THEN "master"
  ELSE NULL

\* getTryFallbackBranchGerrit without the test that the branch is available
getTryFallbackBranchGerrit_Unchecked(availableBranches) == "main"

\* getTryFallbackBranchGerrit
getTryFallbackBranchGerrit(availableBranches) ==
  IF Available(availableBranches, "main") THEN "main"
  ELSE IF Available(availableBranches, "master") THEN "master"
  ELSE NULL

(***************************************************************************)
(* State                                                                   *)
(***************************************************************************)
VARIABLES
  cfg,          \* the inputs of the action (readInputs)
  mergeBaseFaults,  \* whether exec of git merge-base can throw in this environment
  src,          \* source repository: branch name -> head commit or NULL
  dst,          \* destination repository: branch name -> head commit or NULL
  srcTags,      \* source repository: tag name -> commit or NULL
  dstTags,      \* destination repository: tag name -> commit or NULL
  runs,         \* number of the current run
  pc,           \* position of run(): start, branches, delete, pairs, tags, done
  kind,         \* isDestinationGerrit of the run: unset, standard, gerrit
  origin,       \* working tree: refs/remotes/origin/*
  source,       \* working tree: refs/remotes/source/*
  localTags,    \* working tree: refs/tags/*
  names,        \* sourceBranchNames of the all-branch loop
  mapping,      \* branchMapping of the all-branch loop
  todel,        \* branchesToDelete of the all-branch loop
  idx,          \* index of the loop in progress
  ops,          \* the git pushes, tag fetches and failed merge-base calls of the run, in order
  outcome,      \* none, completed, failed (core.setFailed)
  prevOutcome,  \* outcome of the previous run
  dstAtStart,   \* the destination's branch heads when the run started
  probe,        \* classifier check: the inputs handed to the classifier
  answer        \* classifier check: what the classifier returned

vars == <<cfg, mergeBaseFaults, src, dst, srcTags, dstTags, runs, pc, kind, origin, source,
          localTags, names, mapping, todel, idx, ops, outcome, prevOutcome,
          dstAtStart, probe, answer>>

TagOrder == <<"rc1", "v1", "v2">>      \* the order git tag lists them
TagNames == {TagOrder[i] : i \in 1..Len(TagOrder)}

NoRefs == [n \in Names |-> NULL]
NoTags == [t \in TagNames |-> NULL]
NoProbe == [destCommit |-> NULL, sourceCommit |-> NULL, spawned |-> TRUE,
            stdout |-> ""]
NoAnswer == [fn |-> "none", mergeBase |-> NULL, isModified |-> FALSE,
             details |-> "", isAhead |-> FALSE]

DestinationUrls == {"https://github.com/o/r.git", "https://Gerrit.example.com/p"}

\* the configurations of the action the model runs
Configs ==
  [destinationRepo   : DestinationUrls,
   sourceBranch      : {"main", "develop"},
   destinationBranch : {"main", "production"},
   syncAllBranches   : BOOLEAN,
   useMainAsFallback : BOOLEAN,
   syncTags          : {"", "true", "v"}]

\* the source repositories the model starts from
SourceRepos ==
  {r \in [Names -> Commits \cup {NULL}] :
     /\ r["main"] \in {NULL, "c3"}
     /\ r["master"] \in {NULL, "c2"}
     /\ r["production"] \in {NULL, "c4"}
     /\ r["old-HEAD"] = NULL
     /\ r["stale"] = NULL}

\* the destination repositories the model starts from
DestinationRepos ==
  {r \in [Names -> Commits \cup {NULL}] :
     /\ r["main"] \in {NULL, "c2", "c4"}
     /\ r["master"] = NULL
     /\ r["production"] \in {NULL, "c4", "c5"}
     /\ r["old-HEAD"] \in {NULL, "c5"}
     /\ r["stale"] \in {NULL, "c4"}}

SourceTags == [t \in TagNames |->
                 CASE t = "rc1" -> "c1" [] t = "v1" -> "c2" [] t = "v2" -> "c3"]

RunIdle ==
  /\ pc = "start"
  /\ kind = "unset"
  /\ origin = NoRefs
  /\ source = NoRefs
  /\ localTags = NoTags
  /\ names = << >>
  /\ mapping = << >>
  /\ todel = << >>
  /\ idx = 0
  /\ ops = << >>
  /\ outcome = "none"

Init ==
  /\ cfg \in Configs
  /\ mergeBaseFaults = FALSE
  /\ src \in SourceRepos
  /\ dst \in DestinationRepos
  /\ srcTags = SourceTags
  /\ dstTags = NoTags
  /\ runs = 1
  /\ RunIdle
  /\ prevOutcome = "none"
  /\ dstAtStart = dst
  /\ probe = NoProbe
  /\ answer = NoAnswer

(***************************************************************************)
(* The git remotes                                                         *)
(***************************************************************************)
\* git push <src>:refs/heads/<dest> on a standard host: a commit must be
\* sent, and without --force the update must be a fast-forward
PushAccepted(tip, new, force) ==
  /\ new # NULL
  /\ (force \/ tip = NULL \/ tip \in Ancestors(new))

\* one executed git command of the run, as the log records it
\* (seen: the commit origin/<to> resolved to in the working tree; before and
\* after: the head of <to> on the remote before and after the command)
Op(op, flow, from, ns, to, force, ok, seen, before, after) ==
  [op |-> op, flow |-> flow, from |-> from, ns |-> ns, to |-> to,
   force |-> force, ok |-> ok, seen |-> seen, before |-> before, after |-> after]

IsBranchPush(o) == o.op = "push" /\ o.ns \in {"heads", "for"}
IsTagPush(o)    == o.op \in {"pushtags", "pushtag"}
IsPush(o)       == IsBranchPush(o) \/ IsTagPush(o) \/ o.op = "delete"

(***************************************************************************)
(* PushRouter                                                              *)
(***************************************************************************)
\* syncBranches, one branch pair: the divergence check and the choice
\* between the push without --force and the push with --force
\* what git merge-base has written when the call returns: nothing when the
\* process could not be run
MergeBaseStdout(spawned, a, b) == IF spawned THEN MergeBaseOutput(a, b) ELSE ""

\* whether a call of git merge-base made for the pair threw: the divergence
\* check calls it when both commits resolve, the ahead check calls it again
\* when the pair was not blocked
MergeBaseThrew(destCommit, sourceCommit, blocked, spawnedCheck, spawnedAhead) ==
  /\ destCommit # NULL
  /\ sourceCommit # NULL
  /\ (~spawnedCheck \/ (~blocked /\ ~spawnedAhead))

\* syncBranches, the decision for one pair, as a function of what the two
\* refs resolved to and of what the two calls of getMergeBase returned
syncBranchDecision(destCommit, sourceCommit, mergeBaseCheck, mergeBaseAhead) ==
  LET modCheck == hasDestinationBeenModified(destCommit, sourceCommit, mergeBaseCheck)
      isAhead  == isSourceAheadOfDestination(destCommit, sourceCommit, mergeBaseAhead)
  IN  [blocked |-> modCheck.isModified, details |-> modCheck.details,
       force |-> ~isAhead, ns |-> "heads"]

pushPlan(sourceBranchName, destBranchName, spawnedCheck, spawnedAhead) ==
  LET destCommit   == getRefCommit(RevParse("origin/", origin, destBranchName))
      sourceCommit == getRefCommit(RevParse("source/", source, sourceBranchName))
      d == syncBranchDecision(destCommit, sourceCommit,
             getMergeBase(spawnedCheck,
                          MergeBaseStdout(spawnedCheck, destCommit, sourceCommit)),
             getMergeBase(spawnedAhead,
                          MergeBaseStdout(spawnedAhead, destCommit, sourceCommit)))
  IN  [blocked |-> d.blocked, details |-> d.details,
       force |-> d.force, ns |-> d.ns,
       threw |-> MergeBaseThrew(destCommit, sourceCommit, d.blocked,
                                spawnedCheck, spawnedAhead)]

\* syncBranchesGerrit, one branch pair, without the divergence check
pushPlanGerrit_Unchecked(sourceBranchName, destBranchName, spawnedCheck, spawnedAhead) ==
  LET destCommit   == getRefCommitGerrit(RevParse("origin/", origin, destBranchName))
      sourceCommit == getRefCommitGerrit(RevParse("source/", source, sourceBranchName))
      isAhead      == isSourceAheadOfDestinationGerrit(destCommit, sourceCommit,
                        getMergeBaseGerrit(spawnedAhead,
                                     MergeBaseStdout(spawnedAhead, destCommit, sourceCommit)))
  IN  [blocked |-> FALSE, details |-> "", force |-> ~isAhead, ns |-> "for",
       threw |-> MergeBaseThrew(destCommit, sourceCommit, FALSE, TRUE, spawnedAhead)]

\* the Gerrit decision with every pair that is not ahead sent to the push
\* with --force, the divergence check left out
syncBranchDecisionGerrit_ForceWhenNotAhead(destCommit, sourceCommit, mergeBaseCheck, mergeBaseAhead) ==
  LET isAhead == isSourceAheadOfDestinationGerrit(destCommit, sourceCommit, mergeBaseAhead)
  IN  [blocked |-> FALSE, details |-> "", force |-> ~isAhead, ns |-> "for"]

\* syncBranchesGerrit, the decision for one pair
syncBranchDecisionGerrit(destCommit, sourceCommit, mergeBaseCheck, mergeBaseAhead) ==
  LET modCheck == hasDestinationBeenModifiedGerrit(destCommit, sourceCommit,
                                                   mergeBaseCheck)
      isAhead  == isSourceAheadOfDestinationGerrit(destCommit, sourceCommit,
                                                   mergeBaseAhead)
  IN  [blocked |-> modCheck.isModified, details |-> modCheck.details,
       force |-> ~isAhead, ns |-> "for"]

\* syncBranchesGerrit, one branch pair
pushPlanGerrit(sourceBranchName, destBranchName, spawnedCheck, spawnedAhead) ==
  LET destCommit   == getRefCommitGerrit(RevParse("origin/", origin, destBranchName))
      sourceCommit == getRefCommitGerrit(RevParse("source/", source, sourceBranchName))
      d == syncBranchDecisionGerrit(destCommit, sourceCommit,
             getMergeBaseGerrit(spawnedCheck,
                          MergeBaseStdout(spawnedCheck, destCommit, sourceCommit)),
             getMergeBaseGerrit(spawnedAhead,
                          MergeBaseStdout(spawnedAhead, destCommit, sourceCommit)))
  IN  [blocked |-> d.blocked, details |-> d.details,
       force |-> d.force, ns |-> d.ns,
       threw |-> MergeBaseThrew(destCommit, sourceCommit, d.blocked,
                                spawnedCheck, spawnedAhead)]

\* the branch single-branch mode syncs: the configured one when the source
\* has it, else the fallback when enabled, else none (the run fails)
actualSourceBranch(availableBranches) ==
  IF Available(availableBranches, cfg.sourceBranch) THEN cfg.sourceBranch
  ELSE IF cfg.useMainAsFallback THEN getTryFallbackBranch(availableBranches)
  ELSE NULL

\* the Gerrit branch choice without the test of use_main_as_fallback
actualSourceBranchGerrit_AlwaysFallback(availableBranches) ==
  IF Available(availableBranches, cfg.sourceBranch) THEN cfg.sourceBranch
  ELSE getTryFallbackBranchGerrit(availableBranches)

\* syncBranchesGerrit, single-branch mode: the branch that is synced
actualSourceBranchGerrit(availableBranches) ==
  IF Available(availableBranches, cfg.sourceBranch) THEN cfg.sourceBranch
  ELSE IF cfg.useMainAsFallback THEN getTryFallbackBranchGerrit(availableBranches)
  ELSE NULL

\* the outcomes exec of git merge-base can have: it runs, or it throws
Spawns == IF mergeBaseFaults THEN BOOLEAN ELSE {TRUE}

\* the log of the run, with the call of git merge-base that threw and was
\* caught in getMergeBase
LogMergeBase(flow, sb, db, plan) ==
  IF plan.threw
    THEN Append(ops, Op("merge-base", flow, sb, plan.ns, db, FALSE, FALSE,
                        origin[db], dst[db], dst[db]))
    ELSE ops

\* the error of the branch sync logged without leaving run(): the run is
\* marked failed and goes on to the tag sync
Fail_GoesOnToTags ==
  /\ outcome' = "failed"
  /\ pc' = "tags"

\* core.setFailed in the catch of run(): nothing further is executed
Fail ==
  /\ outcome' = "failed"
  /\ pc' = "done"

\* the push of one pair to a standard host; the remote-tracking ref
\* origin/<dest> follows an accepted push
ExecPush(sb, db, plan, next, nextIdx) ==
  LET new == source[sb]
      ok  == PushAccepted(dst[db], new, plan.force)
      o   == Op("push", "standard", sb, plan.ns, db, plan.force, ok, origin[db], dst[db],
                IF ok THEN new ELSE dst[db])
  IN  /\ ops' = Append(LogMergeBase("standard", sb, db, plan), o)
      /\ IF ok
           THEN /\ dst' = [dst EXCEPT ![db] = new]
                /\ origin' = [origin EXCEPT ![db] = new]
                /\ pc' = next
                /\ idx' = nextIdx
                /\ UNCHANGED outcome
           ELSE /\ Fail
                /\ UNCHANGED <<dst, origin, idx>>

\* the push of one pair to Gerrit's review queue: the change is accepted or
\* rejected by the server, and no branch head moves
ExecPushGerrit(sb, db, plan, next, nextIdx) ==
  \E ok \in BOOLEAN :
    LET o == Op("push", "gerrit", sb, plan.ns, db, plan.force,
                ok /\ source[sb] # NULL, origin[db], dst[db], dst[db])
    IN  /\ ops' = Append(LogMergeBase("gerrit", sb, db, plan), o)
        /\ UNCHANGED <<dst, origin>>
        /\ IF o.ok
             THEN pc' = next /\ idx' = nextIdx /\ UNCHANGED outcome
             ELSE Fail /\ UNCHANGED idx

(***************************************************************************)
(* run()                                                                   *)
(***************************************************************************)
\* the commits the working tree holds after the clone of a destination with
\* the branches destRefs and the fetch of the source's branches
HeldCommits(destRefs) ==
  UNION ({Ancestors(destRefs[n]) : n \in Names}
         \cup {Ancestors(dstTags[t]) : t \in TagNames}
         \cup {Ancestors(src[n]) : n \in Names})

\* the tags of the working tree after the clone and git fetch source: the
\* destination's tags, and every tag of the source on a commit the working
\* tree holds
FollowedTagsOf(destRefs) ==
  [t \in TagNames |->
     IF dstTags[t] # NULL THEN dstTags[t]
     ELSE IF srcTags[t] # NULL /\ srcTags[t] \in HeldCommits(destRefs)
            THEN srcTags[t] ELSE NULL]

FollowedTags == FollowedTagsOf(dst)

\* run(), up to the branch sync: the repository kind is detected from the
\* destination URL, the destination is cloned and the source is fetched
Setup ==
  /\ pc = "start"
  /\ kind' = IF isGerritRepository(cfg.destinationRepo) THEN "gerrit" ELSE "standard"
  /\ origin' = dst
  /\ source' = src
  /\ localTags' = FollowedTags
  /\ dstAtStart' = dst
  /\ pc' = "branches"
  /\ UNCHANGED <<cfg, mergeBaseFaults, src, dst, srcTags, dstTags, runs, names, mapping, todel,
                 idx, ops, outcome, prevOutcome, probe, answer>>

\* syncBranches, single-branch mode
syncBranchesSingle ==
  /\ pc = "branches"
  /\ kind = "standard"
  /\ ~cfg.syncAllBranches
  /\ \E head \in HeadTargets :
     LET availableBranches == getSourceBranches(BranchDashR(origin, source, head))
         actual == actualSourceBranch(availableBranches)
     IN  IF actual = NULL
           THEN Fail /\ UNCHANGED <<dst, origin, idx, ops>>
         ELSE \E spawnedCheck \in Spawns, spawnedAhead \in Spawns :
                LET plan == pushPlan(actual, cfg.destinationBranch,
                                     spawnedCheck, spawnedAhead)
                IN  IF plan.blocked
                      THEN Fail /\ UNCHANGED <<dst, origin, idx, ops>>
                      ELSE ExecPush(actual, cfg.destinationBranch, plan, "tags", idx)
  /\ UNCHANGED <<cfg, mergeBaseFaults, src, srcTags, dstTags, runs, kind, source, localTags,
                 names, mapping, todel, prevOutcome, dstAtStart, probe, answer>>

\* syncBranchesGerrit, single-branch mode
syncBranchesGerritSingle ==
  /\ pc = "branches"
  /\ kind = "gerrit"
  /\ ~cfg.syncAllBranches
  /\ \E head \in HeadTargets :
     LET availableBranches == getSourceBranchesGerrit(BranchDashR(origin, source, head))
         actual == actualSourceBranchGerrit(availableBranches)
     IN  IF actual = NULL
           THEN Fail /\ UNCHANGED <<dst, origin, idx, ops>>
         ELSE \E spawnedCheck \in Spawns, spawnedAhead \in Spawns :
                LET plan == pushPlanGerrit(actual, cfg.destinationBranch,
                                           spawnedCheck, spawnedAhead)
                IN  IF plan.blocked
                      THEN Fail /\ UNCHANGED <<dst, origin, idx, ops>>
                      ELSE ExecPushGerrit(actual, cfg.destinationBranch, plan, "tags", idx)
  /\ UNCHANGED <<cfg, mergeBaseFaults, src, srcTags, dstTags, runs, kind, source, localTags,
                 names, mapping, todel, prevOutcome, dstAtStart, probe, answer>>

\* syncBranches, all-branch mode, with the push loop placed before the
\* deletion loop
syncBranchesAllList_PushFirst ==
  /\ pc = "branches"
  /\ kind = "standard"
  /\ cfg.syncAllBranches
  /\ \E head \in HeadTargets :
     LET lines == BranchDashR(origin, source, head)
         sourceBranchNames == getSourceBranches(lines)
         m == branchMapping(sourceBranchNames, cfg.sourceBranch, cfg.destinationBranch)
         del == branchesToDelete(getDestinationBranches(lines), m)
     IN  /\ names' = sourceBranchNames
         /\ mapping' = m
         /\ todel' = del
         /\ idx' = 1
         /\ pc' = IF sourceBranchNames # << >> THEN "pairs"
                  ELSE IF del # << >> THEN "delete" ELSE "tags"
  /\ UNCHANGED <<cfg, mergeBaseFaults, src, dst, srcTags, dstTags, runs, kind, origin, source,
                 localTags, ops, outcome, prevOutcome, dstAtStart, probe, answer>>

\* syncBranches, all-branch mode: the source branches, the mapping and the
\* destination branches to delete
syncBranchesAllList ==
  /\ pc = "branches"
  /\ kind = "standard"
  /\ cfg.syncAllBranches
  /\ \E head \in HeadTargets :
     LET lines == BranchDashR(origin, source, head)
         sourceBranchNames == getSourceBranches(lines)
         m == branchMapping(sourceBranchNames, cfg.sourceBranch, cfg.destinationBranch)
         del == branchesToDelete(getDestinationBranches(lines), m)
     IN  /\ names' = sourceBranchNames
         /\ mapping' = m
         /\ todel' = del
         /\ idx' = 1
         /\ pc' = IF del # << >> THEN "delete"
                  ELSE IF sourceBranchNames # << >> THEN "pairs" ELSE "tags"
  /\ UNCHANGED <<cfg, mergeBaseFaults, src, dst, srcTags, dstTags, runs, kind, origin, source,
                 localTags, ops, outcome, prevOutcome, dstAtStart, probe, answer>>

\* the deletion loop without the try/catch around the push: a refused
\* deletion fails the run
syncBranchesAllDelete_Fatal ==
  /\ pc = "delete"
  /\ idx <= Len(todel)
  /\ \E ok \in BOOLEAN :
       LET b == todel[idx]
           o == Op("delete", "standard", "", "heads", b, FALSE, ok, origin[b], dst[b],
                   IF ok THEN NULL ELSE dst[b])
       IN  /\ ops' = Append(ops, o)
           /\ dst' = IF ok THEN [dst EXCEPT ![b] = NULL] ELSE dst
           /\ origin' = IF ok THEN [origin EXCEPT ![b] = NULL] ELSE origin
           /\ IF ~ok THEN Fail /\ UNCHANGED idx
              ELSE IF idx < Len(todel)
                THEN idx' = idx + 1 /\ pc' = "delete" /\ UNCHANGED outcome
                ELSE /\ idx' = 1
                     /\ pc' = IF names # << >> THEN "pairs" ELSE "tags"
                     /\ UNCHANGED outcome
  /\ UNCHANGED <<cfg, mergeBaseFaults, src, srcTags, dstTags, runs, kind, source, localTags,
                 names, mapping, todel, prevOutcome, dstAtStart,
                 probe, answer>>

\* syncBranches, all-branch mode: git push origin --delete <branch>; a
\* failure is a warning and the loop goes on
syncBranchesAllDelete ==
  /\ pc = "delete"
  /\ idx <= Len(todel)
  /\ \E ok \in BOOLEAN :
       LET b == todel[idx]
           o == Op("delete", "standard", "", "heads", b, FALSE, ok, origin[b], dst[b],
                   IF ok THEN NULL ELSE dst[b])
       IN  /\ ops' = Append(ops, o)
           /\ dst' = IF ok THEN [dst EXCEPT ![b] = NULL] ELSE dst
           /\ origin' = IF ok THEN [origin EXCEPT ![b] = NULL] ELSE origin
  /\ IF idx < Len(todel)
       THEN idx' = idx + 1 /\ pc' = "delete"
       ELSE idx' = 1 /\ pc' = IF names # << >> THEN "pairs" ELSE "tags"
  /\ UNCHANGED <<cfg, mergeBaseFaults, src, srcTags, dstTags, runs, kind, source, localTags,
                 names, mapping, todel, outcome, prevOutcome, dstAtStart,
                 probe, answer>>

\* the push loop with the error of a blocked pair caught inside the loop: the
\* pair is skipped and the loop goes on
syncBranchesAllPair_Continue ==
  /\ pc = "pairs"
  /\ kind = "standard"
  /\ idx <= Len(names)
  /\ \E spawnedCheck \in Spawns, spawnedAhead \in Spawns :
       LET sb == names[idx]
           db == mapping[sb]
           plan == pushPlan(sb, db, spawnedCheck, spawnedAhead)
           next == IF idx < Len(names) THEN "pairs" ELSE "tags"
       IN  IF plan.blocked
           THEN /\ pc' = next
                /\ idx' = idx + 1
                /\ UNCHANGED <<dst, origin, ops, outcome>>
           ELSE ExecPush(sb, db, plan, next, idx + 1)
  /\ UNCHANGED <<cfg, mergeBaseFaults, src, srcTags, dstTags, runs, kind, source, localTags,
                 names, mapping, todel, prevOutcome, dstAtStart, probe, answer>>

\* syncBranches, all-branch mode: one iteration of the push loop
syncBranchesAllPair ==
  /\ pc = "pairs"
  /\ kind = "standard"
  /\ idx <= Len(names)
  /\ \E spawnedCheck \in Spawns, spawnedAhead \in Spawns :
       LET sb == names[idx]
           db == mapping[sb]
           plan == pushPlan(sb, db, spawnedCheck, spawnedAhead)
           next == IF idx < Len(names) THEN "pairs" ELSE "tags"
       IN  IF plan.blocked
             THEN Fail /\ UNCHANGED <<dst, origin, idx, ops>>
             ELSE ExecPush(sb, db, plan, next, idx + 1)
  /\ UNCHANGED <<cfg, mergeBaseFaults, src, srcTags, dstTags, runs, kind, source, localTags,
                 names, mapping, todel, prevOutcome, dstAtStart, probe, answer>>

\* syncBranchesGerrit, all-branch mode: the source branches and the mapping
syncBranchesGerritAllList ==
  /\ pc = "branches"
  /\ kind = "gerrit"
  /\ cfg.syncAllBranches
  /\ \E head \in HeadTargets :
     LET sourceBranchNames == getSourceBranchesGerrit(BranchDashR(origin, source, head))
     IN  /\ names' = sourceBranchNames
         /\ mapping' = branchMapping(sourceBranchNames, cfg.sourceBranch,
                                     cfg.destinationBranch)
         /\ idx' = 1
         /\ pc' = IF sourceBranchNames # << >> THEN "pairs" ELSE "tags"
  /\ UNCHANGED <<cfg, mergeBaseFaults, src, dst, srcTags, dstTags, runs, kind, origin, source,
                 localTags, todel, ops, outcome, prevOutcome, dstAtStart,
                 probe, answer>>

\* the Gerrit push loop with a blocked pair logged and skipped
syncBranchesGerritAllPair_SkipBlocked ==
  /\ pc = "pairs"
  /\ kind = "gerrit"
  /\ idx <= Len(names)
  /\ \E spawnedCheck \in Spawns, spawnedAhead \in Spawns :
       LET sb == names[idx]
           db == mapping[sb]
           plan == pushPlanGerrit(sb, db, spawnedCheck, spawnedAhead)
           next == IF idx < Len(names) THEN "pairs" ELSE "tags"
       IN  IF plan.blocked
             THEN /\ pc' = next
                  /\ idx' = idx + 1
                  /\ UNCHANGED <<dst, origin, ops, outcome>>
             ELSE ExecPushGerrit(sb, db, plan, next, idx + 1)
  /\ UNCHANGED <<cfg, mergeBaseFaults, src, srcTags, dstTags, runs, kind, source, localTags,
                 names, mapping, todel, prevOutcome, dstAtStart, probe, answer>>

\* syncBranchesGerrit, all-branch mode: one iteration of the push loop
syncBranchesGerritAllPair ==
  /\ pc = "pairs"
  /\ kind = "gerrit"
  /\ idx <= Len(names)
  /\ \E spawnedCheck \in Spawns, spawnedAhead \in Spawns :
       LET sb == names[idx]
           db == mapping[sb]
           plan == pushPlanGerrit(sb, db, spawnedCheck, spawnedAhead)
           next == IF idx < Len(names) THEN "pairs" ELSE "tags"
       IN  IF plan.blocked
             THEN Fail /\ UNCHANGED <<dst, origin, idx, ops>>
             ELSE ExecPushGerrit(sb, db, plan, next, idx + 1)
  /\ UNCHANGED <<cfg, mergeBaseFaults, src, srcTags, dstTags, runs, kind, source, localTags,
                 names, mapping, todel, prevOutcome, dstAtStart, probe, answer>>

(***************************************************************************)
(* TagSyncer                                                               *)
(***************************************************************************)
\* tag.match(syncTags) for a pattern without metacharacters: the pattern
\* occurs in the tag name
TagMatches(tag, pattern) == Includes(Spell(tag), Spell(pattern))

\* git fetch source --tags: the source's tags enter the working tree; a tag
\* the working tree already has is not moved
FetchedTags ==
  [t \in TagNames |-> IF localTags[t] # NULL THEN localTags[t] ELSE srcTags[t]]

\* git fetch source --tags exits with 1 when the source holds a tag of the
\* working tree at another commit (would clobber existing tag)
FetchTagsRejected ==
  \E t \in TagNames :
    localTags[t] # NULL /\ srcTags[t] # NULL /\ localTags[t] # srcTags[t]

\* git tag: the tags of the working tree, in name order
allTags(local) == SelectSeq(TagOrder, LAMBDA t : local[t] # NULL)

\* matchingTags without the filter on the pattern
matchingTags_All(local, pattern) == allTags(local)

\* matchingTags
matchingTags(local, pattern) ==
  SelectSeq(allTags(local), LAMBDA t : TagMatches(t, pattern))

\* a push without --force is refused for a tag the remote holds at another commit
TagConflict(local, remote, t) == remote[t] # NULL /\ remote[t] # local[t]

NoReject == [t \in TagNames |-> FALSE]

\* what the server refuses on its own account, per ref: nothing, the
\* update of refs/tags/v1 (an update hook), or every update (pre-receive)
Refusals == {NoReject, [t \in TagNames |-> t = "v1"], [t \in TagNames |-> TRUE]}

\* the refusals a tag sync can meet: none when sync_tags switches it off
RefusalsFor(mode) == IF mode = "off" THEN {NoReject} ELSE Refusals

\* a tag the push has to send: the working tree has it and the remote does
\* not hold it at that commit; for the others git sends nothing
NeedsUpdate(local, remote, t) == local[t] # NULL /\ remote[t] # local[t]

\* the loop over matchingTags: git push origin refs/tags/<tag>:refs/tags/<tag>,
\* and the same with --force in the catch; r1 and r2 say which of the two
\* pushes the server refuses on its own account
RECURSIVE pushEachTag(_, _, _, _, _, _, _)
pushEachTag(tags, flow, r1, r2, local, remote, log) ==
  IF tags = << >> THEN [tags |-> remote, ops |-> log, failed |-> FALSE]
  ELSE
    LET t        == Head(tags)
        rejected == /\ NeedsUpdate(local, remote, t)
                    /\ (r1[t] \/ TagConflict(local, remote, t))
        first    == Op("pushtag", flow, t, "tags", t, FALSE, ~rejected, NULL, remote[t],
                       IF rejected THEN remote[t] ELSE local[t])
        second   == Op("pushtag", flow, t, "tags", t, TRUE, ~r2[t], NULL, remote[t],
                       IF r2[t] THEN remote[t] ELSE local[t])
        pushed   == [remote EXCEPT ![t] = local[t]]
    IN  IF ~rejected
          THEN pushEachTag(Tail(tags), flow, r1, r2, local, pushed, Append(log, first))
        ELSE IF ~r2[t]
          THEN pushEachTag(Tail(tags), flow, r1, r2, local, pushed, log \o <<first, second>>)
        ELSE [tags |-> remote, ops |-> log \o <<first, second>>, failed |-> TRUE]

\* the push of all tags done with --force at once
pushAllTags_ForceOnly(flow, r1, r2, local, remote, log) ==
  LET sent   == {t \in TagNames : NeedsUpdate(local, remote, t)}
      failed == \E t \in sent : r2[t]
      forced == [t \in TagNames |-> IF t \in sent /\ ~r2[t] THEN local[t] ELSE remote[t]]
      only   == Op("pushtags", flow, "", "tags", "", TRUE, ~failed, NULL, NULL, NULL)
  IN  [tags |-> forced, ops |-> Append(log, only), failed |-> failed]

\* git push origin --tags, and the same with --force in the catch: git
\* leaves out a tag the remote holds at another commit, the server writes
\* the refs it accepts, and the push exits with 1 when a ref was left out
\* or refused
pushAllTags(flow, r1, r2, local, remote, log) ==
  LET sent1    == {t \in TagNames : NeedsUpdate(local, remote, t)}
      rejected == \E t \in sent1 : r1[t] \/ TagConflict(local, remote, t)
      partial  == [t \in TagNames |->
                     IF t \in sent1 /\ ~TagConflict(local, remote, t) /\ ~r1[t]
                       THEN local[t] ELSE remote[t]]
      sent2    == {t \in TagNames : NeedsUpdate(local, partial, t)}
      failed   == \E t \in sent2 : r2[t]
      forced   == [t \in TagNames |->
                     IF t \in sent2 /\ ~r2[t] THEN local[t] ELSE partial[t]]
      first    == Op("pushtags", flow, "", "tags", "", FALSE, ~rejected, NULL, NULL, NULL)
      second   == Op("pushtags", flow, "", "tags", "", TRUE, ~failed, NULL, NULL, NULL)
  IN  IF ~rejected
        THEN [tags |-> partial, ops |-> Append(log, first), failed |-> FALSE]
      ELSE [tags |-> forced, ops |-> log \o <<first, second>>, failed |-> failed]

FetchOp(flow) ==
  Op("fetchtags", flow, "", "tags", "", FALSE, ~FetchTagsRejected, NULL, NULL, NULL)

\* exec throws on the exit code of the fetch: nothing is pushed
fetchRejected(flow) ==
  [tags |-> dstTags, ops |-> Append(ops, FetchOp(flow)), failed |-> TRUE]

\* the branch of syncTags the value of sync_tags selects, with the empty
\* string taken for a pattern
tagMode_EmptyIsPattern(syncTagsInput) ==
  IF syncTagsInput = "true" THEN "all" ELSE "pattern"

\* the branch of syncTags the value of sync_tags selects: "true", another
\* non-empty string, or the empty string
tagMode(syncTagsInput) ==
  IF syncTagsInput = "true" THEN "all"
  ELSE IF syncTagsInput # "" THEN "pattern"
  ELSE "off"

\* the branch of syncTagsGerrit the value of sync_tags selects
tagModeGerrit(syncTagsInput) ==
  IF syncTagsInput = "true" THEN "all"
  ELSE IF syncTagsInput # "" THEN "pattern"
  ELSE "off"

\* syncTags, and the end of run(): the tags are fetched and pushed as
\* sync_tags asks; the server may refuse a push (a and b: the push without
\* --force and the push with --force), and an error of the push with --force
\* is not caught and fails the run
syncTags ==
  /\ pc = "tags"
  /\ kind = "standard"
  /\ \E r1 \in RefusalsFor(tagMode(cfg.syncTags)), r2 \in RefusalsFor(tagMode(cfg.syncTags)) :
       LET noop == [tags |-> dstTags, ops |-> ops, failed |-> FALSE]
           res == IF tagMode(cfg.syncTags) # "off" /\ FetchTagsRejected
                    THEN fetchRejected("standard")
                  ELSE IF tagMode(cfg.syncTags) = "all"
                    THEN pushAllTags("standard", r1, r2, FetchedTags, dstTags,
                                     Append(ops, FetchOp("standard")))
                  ELSE IF tagMode(cfg.syncTags) = "pattern"
                    THEN pushEachTag(matchingTags(FetchedTags, cfg.syncTags), "standard",
                                     r1, r2, FetchedTags, dstTags,
                                     Append(ops, FetchOp("standard")))
                  ELSE noop
       IN  /\ ops' = res.ops
           /\ dstTags' = res.tags
           /\ outcome' = IF res.failed THEN "failed" ELSE "completed"
  /\ localTags' = IF tagMode(cfg.syncTags) # "off" THEN FetchedTags ELSE localTags
  /\ pc' = "done"
  /\ UNCHANGED <<cfg, mergeBaseFaults, src, dst, srcTags, runs, kind, origin, source, names,
                 mapping, todel, idx, prevOutcome, dstAtStart, probe, answer>>

\* syncTagsGerrit, and the end of run(): as syncTags, but every error is
\* caught and logged as a warning
syncTagsGerrit ==
  /\ pc = "tags"
  /\ kind = "gerrit"
  /\ \E r1 \in RefusalsFor(tagModeGerrit(cfg.syncTags)), r2 \in RefusalsFor(tagModeGerrit(cfg.syncTags)) :
       LET noop == [tags |-> dstTags, ops |-> ops, failed |-> FALSE]
           res == IF tagModeGerrit(cfg.syncTags) # "off" /\ FetchTagsRejected
                    THEN fetchRejected("gerrit")
                  ELSE IF tagModeGerrit(cfg.syncTags) = "all"
                    THEN pushAllTags("gerrit", r1, r2, FetchedTags, dstTags,
                                     Append(ops, FetchOp("gerrit")))
                  ELSE IF tagModeGerrit(cfg.syncTags) = "pattern"
                    THEN pushEachTag(matchingTags(FetchedTags, cfg.syncTags), "gerrit",
                                     r1, r2, FetchedTags, dstTags,
                                     Append(ops, FetchOp("gerrit")))
                  ELSE noop
       IN  /\ ops' = res.ops
           /\ dstTags' = res.tags
  /\ localTags' = IF tagModeGerrit(cfg.syncTags) # "off" THEN FetchedTags ELSE localTags
  /\ outcome' = "completed"
  /\ pc' = "done"
  /\ UNCHANGED <<cfg, mergeBaseFaults, src, dst, srcTags, runs, kind, origin, source, names,
                 mapping, todel, idx, prevOutcome, dstAtStart, probe, answer>>

\* the action is started again on the same two repositories
NextRun ==
  /\ pc = "done"
  /\ runs < MaxRuns
  /\ runs' = runs + 1
  /\ prevOutcome' = outcome
  /\ pc' = "start"
  /\ kind' = "unset"
  /\ origin' = NoRefs
  /\ source' = NoRefs
  /\ localTags' = NoTags
  /\ names' = << >>
  /\ mapping' = << >>
  /\ todel' = << >>
  /\ idx' = 0
  /\ ops' = << >>
  /\ outcome' = "none"
  /\ UNCHANGED <<cfg, mergeBaseFaults, src, dst, srcTags, dstTags, dstAtStart, probe, answer>>

Next ==
  \/ Setup
  \/ syncBranchesSingle
  \/ syncBranchesGerritSingle
  \/ syncBranchesAllList
  \/ syncBranchesAllDelete
  \/ syncBranchesAllPair
  \/ syncBranchesGerritAllList
  \/ syncBranchesGerritAllPair
  \/ syncTags
  \/ syncTagsGerrit
  \/ NextRun

Spec == Init /\ [][Next]_vars

\* the same runs in an environment where exec of git merge-base can throw
\* (the process cannot be started); tags are left out
FaultyInit ==
  /\ cfg \in {c \in Configs : c.syncTags = ""}
  /\ mergeBaseFaults = TRUE
  /\ src \in SourceRepos
  /\ dst \in DestinationRepos
  /\ srcTags = SourceTags
  /\ dstTags = NoTags
  /\ runs = 1
  /\ RunIdle
  /\ prevOutcome = "none"
  /\ dstAtStart = dst
  /\ probe = NoProbe
  /\ answer = NoAnswer

SpecFaulty == FaultyInit /\ [][Next]_vars

\* the destination repository is shared: between the clone of the run and
\* its pushes somebody else adds a commit on top of a destination branch,
\* which the origin/<branch> snapshot of the working tree does not follow
ThirdPartyCommit ==
  /\ pc \in {"branches", "delete", "pairs"}
  /\ \E b \in Names : \E c \in Commits :
       /\ dst[b] # NULL
       /\ dst[b] = origin[b]
       /\ Parent(c) = dst[b]
       /\ dst' = [dst EXCEPT ![b] = c]
  /\ UNCHANGED <<cfg, mergeBaseFaults, src, srcTags, dstTags, runs, pc, kind, origin, source,
                 localTags, names, mapping, todel, idx, ops, outcome, prevOutcome,
                 dstAtStart, probe, answer>>

\* the runs against a destination other writers commit to; tags are left out
RaceInit ==
  /\ cfg \in {c \in Configs : c.syncTags = ""}
  /\ mergeBaseFaults = FALSE
  /\ src \in SourceRepos
  /\ dst \in DestinationRepos
  /\ srcTags = SourceTags
  /\ dstTags = NoTags
  /\ runs = 1
  /\ RunIdle
  /\ prevOutcome = "none"
  /\ dstAtStart = dst
  /\ probe = NoProbe
  /\ answer = NoAnswer

RaceNext == Next \/ ThirdPartyCommit

SpecRace == RaceInit /\ [][RaceNext]_vars

(***************************************************************************)
(* The sync functions that push with --force at once: the lightweight      *)
(* sync (syncBranchesLightweight, syncTagsLightweight), run() of index.js  *)
(* and sync() of lib/sync.js. run() of gerrit.js calls none of them; each  *)
(* is run here on its own, after the clone and the fetch of the source.    *)
(***************************************************************************)
\* the commit a remote-tracking ref of the working tree resolves to; a
\* branch that was never fetched has none
RefAt(refs, n) == IF n \in Names THEN refs[n] ELSE NULL

\* git push origin refs/remotes/source/<sb>:refs/heads/<db> --force, with no
\* check before it; the error of a push that fails is thrown
ForcePush(flow, sb, db, next, nextIdx) ==
  LET new == RefAt(source, sb)
      ok  == PushAccepted(dst[db], new, TRUE)
      o   == Op("push", flow, sb, "heads", db, TRUE, ok, origin[db], dst[db],
                IF ok THEN new ELSE dst[db])
  IN  /\ ops' = Append(ops, o)
      /\ IF ok
           THEN /\ dst' = [dst EXCEPT ![db] = new]
                /\ origin' = [origin EXCEPT ![db] = new]
                /\ pc' = next
                /\ idx' = nextIdx
                /\ UNCHANGED outcome
           ELSE /\ Fail
                /\ UNCHANGED <<dst, origin, idx>>

\* syncBranchesLightweight, all-branch mode: the lines of git branch -r
\* --list source/* without those that contain HEAD
getSourceBranchesLightweight(lines) ==
  LET trimmed == [i \in 1..Len(lines) |-> Trim(lines[i])]
      kept    == SelectSeq(trimmed, LAMBDA l : l # << >> /\ ~Includes(l, Spell("HEAD")))
  IN  [i \in 1..Len(kept) |-> Unspell(RemoveFirst(kept[i], Spell("source/")))]

\* syncBranchesLightweight, single-branch mode
syncBranchesLightweightSingle ==
  /\ pc = "branches"
  /\ ~cfg.syncAllBranches
  /\ ForcePush("lightweight", cfg.sourceBranch, cfg.destinationBranch, "tags", idx)
  /\ UNCHANGED <<cfg, mergeBaseFaults, src, srcTags, dstTags, runs, kind, source, localTags,
                 names, mapping, todel, prevOutcome, dstAtStart, probe, answer>>

\* syncBranchesLightweight, all-branch mode: the source branches and the
\* mapping
syncBranchesLightweightAllList ==
  /\ pc = "branches"
  /\ cfg.syncAllBranches
  /\ LET sourceBranches == getSourceBranchesLightweight(RemoteLines("source/", source))
     IN  /\ names' = sourceBranches
         /\ mapping' = branchMapping(sourceBranches, cfg.sourceBranch,
                                     cfg.destinationBranch)
         /\ todel' = << >>
         /\ idx' = 1
         /\ pc' = IF sourceBranches # << >> THEN "pairs" ELSE "tags"
  /\ UNCHANGED <<cfg, mergeBaseFaults, src, dst, srcTags, dstTags, runs, kind, origin, source,
                 localTags, ops, outcome, prevOutcome, dstAtStart, probe, answer>>

\* syncBranchesLightweight, all-branch mode: one iteration of the push loop
syncBranchesLightweightAllPair ==
  /\ pc = "pairs"
  /\ idx <= Len(names)
  /\ ForcePush("lightweight", names[idx], mapping[names[idx]],
               IF idx < Len(names) THEN "pairs" ELSE "tags", idx + 1)
  /\ UNCHANGED <<cfg, mergeBaseFaults, src, srcTags, dstTags, runs, kind, source, localTags,
                 names, mapping, todel, prevOutcome, dstAtStart, probe, answer>>

\* git fetch source --tags after every tag of the working tree was deleted
RefetchedTags == [t \in TagNames |-> srcTags[t]]

RefetchOp(flow) == Op("fetchtags", flow, "", "tags", "", FALSE, TRUE, NULL, NULL, NULL)

\* git push origin --tags --force; r says which refs the server refuses:
\* the others are written, and the push exits with 1 when one was refused
pushAllTagsForce(flow, r, local, remote, log) ==
  LET sent   == {t \in TagNames : NeedsUpdate(local, remote, t)}
      failed == \E t \in sent : r[t]
      forced == [t \in TagNames |-> IF t \in sent /\ ~r[t] THEN local[t] ELSE remote[t]]
      only   == Op("pushtags", flow, "", "tags", "", TRUE, ~failed, NULL, NULL, NULL)
  IN  [tags |-> forced, ops |-> Append(log, only), failed |-> failed]

\* the loop over matchingTags with git push origin refs/tags/<tag>:refs/tags/<tag>
\* --force; r says which pushes the server refuses, and fatal whether the
\* error of a refused push leaves the loop
RECURSIVE pushEachTagForce(_, _, _, _, _, _, _)
pushEachTagForce(tags, flow, r, fatal, local, remote, log) ==
  IF tags = << >> THEN [tags |-> remote, ops |-> log, failed |-> FALSE]
  ELSE
    LET t       == Head(tags)
        refused == NeedsUpdate(local, remote, t) /\ r[t]
        o       == Op("pushtag", flow, t, "tags", t, TRUE, ~refused, NULL, remote[t],
                      IF refused THEN remote[t] ELSE local[t])
    IN  IF ~refused
          THEN pushEachTagForce(Tail(tags), flow, r, fatal, local,
                                [remote EXCEPT ![t] = local[t]], Append(log, o))
        ELSE IF fatal
          THEN [tags |-> remote, ops |-> Append(log, o), failed |-> TRUE]
        ELSE pushEachTagForce(Tail(tags), flow, r, fatal, local, remote, Append(log, o))

\* git push origin <tag> ... <tag> --force, one command for all the tags:
\* the refs the server accepts are written
pushTagListForce(tags, flow, r, local, remote, log) ==
  LET sent   == {t \in SeqToSet(tags) : NeedsUpdate(local, remote, t)}
      failed == \E t \in sent : r[t]
      forced == [t \in TagNames |-> IF t \in sent /\ ~r[t] THEN local[t] ELSE remote[t]]
      only   == Op("pushtags", flow, "", "tags", "", TRUE, ~failed, NULL, NULL, NULL)
  IN  IF tags = << >> THEN [tags |-> remote, ops |-> log, failed |-> FALSE]
      ELSE [tags |-> forced, ops |-> Append(log, only), failed |-> failed]

\* the branch of syncTagsLightweight the value of sync_tags selects
tagModeLightweight(syncTagsInput) ==
  IF syncTagsInput = "true" THEN "all"
  ELSE IF syncTagsInput # "" THEN "pattern"
  ELSE "off"

\* syncTagsLightweight: the tags of the working tree are deleted and fetched
\* again, then pushed with --force; the error of the push of all tags is
\* thrown, the error of the push of one matching tag is logged as a warning
syncTagsLightweight ==
  /\ pc = "tags"
  /\ \E r \in Refusals :
       LET noop == [tags |-> dstTags, ops |-> ops, failed |-> FALSE]
           res == IF tagModeLightweight(cfg.syncTags) = "all"
                    THEN pushAllTagsForce("lightweight", r, RefetchedTags, dstTags,
                                          Append(ops, RefetchOp("lightweight")))
                  ELSE IF tagModeLightweight(cfg.syncTags) = "pattern"
                    THEN pushEachTagForce(matchingTags(RefetchedTags, cfg.syncTags),
                                          "lightweight", r, FALSE, RefetchedTags, dstTags,
                                          Append(ops, RefetchOp("lightweight")))
                  ELSE noop
       IN  /\ ops' = res.ops
           /\ dstTags' = res.tags
           /\ outcome' = IF res.failed THEN "failed" ELSE "completed"
  /\ localTags' = IF tagModeLightweight(cfg.syncTags) # "off" THEN RefetchedTags
                  ELSE localTags
  /\ pc' = "done"
  /\ UNCHANGED <<cfg, mergeBaseFaults, src, dst, srcTags, runs, kind, origin, source, names,
                 mapping, todel, idx, prevOutcome, dstAtStart, probe, answer>>

\* the runs of a standard destination, for the functions that do not look
\* at the kind of the repository
ForceInit ==
  /\ cfg \in {c \in Configs : ~isGerritRepository(c.destinationRepo)}
  /\ mergeBaseFaults = FALSE
  /\ src \in SourceRepos
  /\ dst \in DestinationRepos
  /\ srcTags = SourceTags
  /\ dstTags = NoTags
  /\ runs = 1
  /\ RunIdle
  /\ prevOutcome = "none"
  /\ dstAtStart = dst
  /\ probe = NoProbe
  /\ answer = NoAnswer

LightweightNext ==
  \/ Setup
  \/ syncBranchesLightweightSingle
  \/ syncBranchesLightweightAllList
  \/ syncBranchesLightweightAllPair
  \/ syncTagsLightweight
  \/ NextRun

SpecLightweight == ForceInit /\ [][LightweightNext]_vars

\* run() of index.js, single-branch mode: git fetch source <source_branch>
\* throws when the source has no such branch; the branch is then pushed
\* with --force
runIndexSingle ==
  /\ pc = "branches"
  /\ ~cfg.syncAllBranches
  /\ IF RefAt(source, cfg.sourceBranch) = NULL
       THEN Fail /\ UNCHANGED <<dst, origin, idx, ops>>
       ELSE ForcePush("index", cfg.sourceBranch, cfg.destinationBranch, "tags", idx)
  /\ UNCHANGED <<cfg, mergeBaseFaults, src, srcTags, dstTags, runs, kind, source, localTags,
                 names, mapping, todel, prevOutcome, dstAtStart, probe, answer>>

\* run() of index.js, all-branch mode: the branches of the source; every
\* branch keeps its name
runIndexAllList ==
  /\ pc = "branches"
  /\ cfg.syncAllBranches
  /\ \E head \in HeadTargets :
       LET branchNames == getSourceBranches(BranchDashR(origin, source, head))
       IN  /\ names' = branchNames
           /\ mapping' = [b \in SeqToSet(branchNames) |-> b]
           /\ todel' = << >>
           /\ idx' = 1
           /\ pc' = IF branchNames # << >> THEN "pairs" ELSE "tags"
  /\ UNCHANGED <<cfg, mergeBaseFaults, src, dst, srcTags, dstTags, runs, kind, origin, source,
                 localTags, ops, outcome, prevOutcome, dstAtStart, probe, answer>>

\* run() of index.js, all-branch mode: one iteration of the push loop
runIndexAllPair ==
  /\ pc = "pairs"
  /\ idx <= Len(names)
  /\ ForcePush("index", names[idx], mapping[names[idx]],
               IF idx < Len(names) THEN "pairs" ELSE "tags", idx + 1)
  /\ UNCHANGED <<cfg, mergeBaseFaults, src, srcTags, dstTags, runs, kind, source, localTags,
                 names, mapping, todel, prevOutcome, dstAtStart, probe, answer>>

\* run() of index.js, the tags: fetched on top of the tags of the working
\* tree and pushed with --force; every error ends the run as failed
runIndexTags ==
  /\ pc = "tags"
  /\ \E r \in Refusals :
       LET noop == [tags |-> dstTags, ops |-> ops, failed |-> FALSE]
           res == IF cfg.syncTags # "" /\ FetchTagsRejected
                    THEN fetchRejected("index")
                  ELSE IF cfg.syncTags = "true"
                    THEN pushAllTagsForce("index", r, FetchedTags, dstTags,
                                          Append(ops, FetchOp("index")))
                  ELSE IF cfg.syncTags # ""
                    THEN pushEachTagForce(matchingTags(FetchedTags, cfg.syncTags),
                                          "index", r, TRUE, FetchedTags, dstTags,
                                          Append(ops, FetchOp("index")))
                  ELSE noop
       IN  /\ ops' = res.ops
           /\ dstTags' = res.tags
           /\ outcome' = IF res.failed THEN "failed" ELSE "completed"
  /\ localTags' = IF cfg.syncTags # "" THEN FetchedTags ELSE localTags
  /\ pc' = "done"
  /\ UNCHANGED <<cfg, mergeBaseFaults, src, dst, srcTags, runs, kind, origin, source, names,
                 mapping, todel, idx, prevOutcome, dstAtStart, probe, answer>>

IndexNext ==
  \/ Setup
  \/ runIndexSingle
  \/ runIndexAllList
  \/ runIndexAllPair
  \/ runIndexTags
  \/ NextRun

SpecIndex == ForceInit /\ [][IndexNext]_vars

\* syncBranch of lib/sync.js: the one mapped branch is pushed with --force
syncBranch ==
  /\ pc = "branches"
  /\ ForcePush("lib", cfg.sourceBranch, cfg.destinationBranch, "tags", idx)
  /\ UNCHANGED <<cfg, mergeBaseFaults, src, srcTags, dstTags, runs, kind, source, localTags,
                 names, mapping, todel, prevOutcome, dstAtStart, probe, answer>>

\* cleanupRemotes of lib/sync.js: the remote of the source is removed, and
\* its remote-tracking refs with it
cleanupRemotes == NoRefs

\* syncTags of lib/sync.js, and the end of sync(): the tags of the working
\* tree are deleted and fetched again; all of them, or those whose name
\* includes SYNC_TAGS, are pushed with --force in one command; sync() then
\* calls cleanupRemotes, which an error of the push skips
syncTagsLib ==
  /\ pc = "tags"
  /\ \E r \in Refusals :
       LET res == IF cfg.syncTags = "" THEN [tags |-> dstTags, ops |-> ops, failed |-> FALSE]
                  ELSE IF cfg.syncTags = "true"
                    THEN pushAllTagsForce("lib", r, RefetchedTags, dstTags,
                                          Append(ops, RefetchOp("lib")))
                  ELSE pushTagListForce(matchingTags(RefetchedTags, cfg.syncTags), "lib",
                                        r, RefetchedTags, dstTags,
                                        Append(ops, RefetchOp("lib")))
       IN  /\ ops' = res.ops
           /\ dstTags' = res.tags
           /\ outcome' = IF res.failed THEN "failed" ELSE "completed"
           /\ source' = IF res.failed THEN source ELSE cleanupRemotes
  /\ localTags' = IF cfg.syncTags # "" THEN RefetchedTags ELSE localTags
  /\ pc' = "done"
  /\ UNCHANGED <<cfg, mergeBaseFaults, src, dst, srcTags, runs, kind, origin, names,
                 mapping, todel, idx, prevOutcome, dstAtStart, probe, answer>>

LibNext ==
  \/ Setup
  \/ syncBranch
  \/ syncTagsLib
  \/ NextRun

SpecLib == ForceInit /\ [][LibNext]_vars

(***************************************************************************)
(* The earlier Gerrit module (syncBranchesGerrit and syncTagsGerrit with   *)
(* no divergence check): every push carries --force. run() of gerrit.js    *)
(* calls neither; each is run here on its own for a Gerrit destination,    *)
(* after the clone and the fetch of the source.                            *)
(***************************************************************************)
\* git push origin refs/remotes/source/<sb>:refs/for/<db> --force: the
\* change is accepted or rejected by the server, and no branch head moves;
\* fatal says whether the error of a rejected push leaves the function
ForcePushGerrit(sb, db, fatal, next, nextIdx) ==
  \E ok \in BOOLEAN :
    LET o == Op("push", "review", sb, "for", db, TRUE, ok /\ RefAt(source, sb) # NULL,
                RefAt(origin, db), RefAt(dst, db), RefAt(dst, db))
    IN  /\ ops' = Append(ops, o)
        /\ UNCHANGED <<dst, origin>>
        /\ IF o.ok \/ ~fatal
             THEN pc' = next /\ idx' = nextIdx /\ UNCHANGED outcome
             ELSE Fail /\ UNCHANGED idx

\* the earlier syncBranchesGerrit, single-branch mode: the branch or its
\* fallback is pushed to the review queue with --force
syncBranchesGerritForceSingle ==
  /\ pc = "branches"
  /\ ~cfg.syncAllBranches
  /\ \E head \in HeadTargets :
     LET availableBranches == getSourceBranchesGerrit(BranchDashR(origin, source, head))
         actual == actualSourceBranchGerrit(availableBranches)
     IN  IF actual = NULL
           THEN Fail /\ UNCHANGED <<dst, origin, idx, ops>>
           ELSE ForcePushGerrit(actual, cfg.destinationBranch, TRUE, "tags", idx)
  /\ UNCHANGED <<cfg, mergeBaseFaults, src, srcTags, dstTags, runs, kind, source, localTags,
                 names, mapping, todel, prevOutcome, dstAtStart, probe, answer>>

\* the earlier syncBranchesGerrit, all-branch mode: the branches of the
\* source; every branch keeps its name
syncBranchesGerritForceAllList ==
  /\ pc = "branches"
  /\ cfg.syncAllBranches
  /\ \E head \in HeadTargets :
       LET branchNames == getSourceBranchesGerrit(BranchDashR(origin, source, head))
       IN  /\ names' = branchNames
           /\ mapping' = [b \in SeqToSet(branchNames) |-> b]
           /\ todel' = << >>
           /\ idx' = 1
           /\ pc' = IF branchNames # << >> THEN "pairs" ELSE "tags"
  /\ UNCHANGED <<cfg, mergeBaseFaults, src, dst, srcTags, dstTags, runs, kind, origin, source,
                 localTags, ops, outcome, prevOutcome, dstAtStart, probe, answer>>

\* the earlier syncBranchesGerrit, all-branch mode: one iteration of the
\* push loop; the error of a rejected push is logged as a warning and the
\* loop goes on
syncBranchesGerritForceAllPair ==
  /\ pc = "pairs"
  /\ idx <= Len(names)
  /\ ForcePushGerrit(names[idx], mapping[names[idx]], FALSE,
                     IF idx < Len(names) THEN "pairs" ELSE "tags", idx + 1)
  /\ UNCHANGED <<cfg, mergeBaseFaults, src, srcTags, dstTags, runs, kind, source, localTags,
                 names, mapping, todel, prevOutcome, dstAtStart, probe, answer>>

\* the branch of the earlier syncTagsGerrit the value of sync_tags selects
tagModeGerritForce(syncTagsInput) ==
  IF syncTagsInput = "true" THEN "all"
  ELSE IF syncTagsInput # "" THEN "pattern"
  ELSE "off"

\* the earlier syncTagsGerrit: the tags are fetched and pushed with --force,
\* all in one command or the matching ones one by one; the first error
\* leaves the try block and is logged as a warning
syncTagsGerritForce ==
  /\ pc = "tags"
  /\ \E r \in RefusalsFor(tagModeGerritForce(cfg.syncTags)) :
       LET noop == [tags |-> dstTags, ops |-> ops, failed |-> FALSE]
           res == IF tagModeGerritForce(cfg.syncTags) # "off" /\ FetchTagsRejected
                    THEN fetchRejected("review")
                  ELSE IF tagModeGerritForce(cfg.syncTags) = "all"
                    THEN pushAllTagsForce("review", r, FetchedTags, dstTags,
                                          Append(ops, FetchOp("review")))
                  ELSE IF tagModeGerritForce(cfg.syncTags) = "pattern"
                    THEN pushEachTagForce(matchingTags(FetchedTags, cfg.syncTags),
                                          "review", r, TRUE, FetchedTags, dstTags,
                                          Append(ops, FetchOp("review")))
                  ELSE noop
       IN  /\ ops' = res.ops
           /\ dstTags' = res.tags
  /\ localTags' = IF tagModeGerritForce(cfg.syncTags) # "off" THEN FetchedTags
                  ELSE localTags
  /\ outcome' = "completed"
  /\ pc' = "done"
  /\ UNCHANGED <<cfg, mergeBaseFaults, src, dst, srcTags, runs, kind, origin, source, names,
                 mapping, todel, idx, prevOutcome, dstAtStart, probe, answer>>

\* the runs of a Gerrit destination
GerritInit ==
  /\ cfg \in {c \in Configs : isGerritRepository(c.destinationRepo)}
  /\ mergeBaseFaults = FALSE
  /\ src \in SourceRepos
  /\ dst \in DestinationRepos
  /\ srcTags = SourceTags
  /\ dstTags = NoTags
  /\ runs = 1
  /\ RunIdle
  /\ prevOutcome = "none"
  /\ dstAtStart = dst
  /\ probe = NoProbe
  /\ answer = NoAnswer

GerritForceNext ==
  \/ Setup
  \/ syncBranchesGerritForceSingle
  \/ syncBranchesGerritForceAllList
  \/ syncBranchesGerritForceAllPair
  \/ syncTagsGerritForce
  \/ NextRun

SpecGerritForce == GerritInit /\ [][GerritForceNext]_vars

TypeOK ==
  /\ pc \in {"start", "branches", "delete", "pairs", "tags", "done"}
  /\ outcome \in {"none", "completed", "failed"}
  /\ kind \in {"unset", "standard", "gerrit"}
  /\ runs \in 1..(MaxRuns + 1)

(***************************************************************************)
(* The classifier on its own: every combination of a destination commit,   *)
(* a source commit and an outcome of git merge-base, each possibly absent, *)
(* is handed to the functions of the DivergenceClassifier.                 *)
(***************************************************************************)
Probes ==
  {p \in [destCommit : Commits \cup {NULL}, sourceCommit : Commits \cup {NULL},
          spawned : BOOLEAN, stdout : Commits \cup {""}] :
     ~p.spawned => p.stdout = ""}

ClassifyInit ==
  /\ probe \in Probes
  /\ answer = NoAnswer
  /\ cfg = [destinationRepo |-> "https://github.com/o/r.git", sourceBranch |-> "main",
            destinationBranch |-> "main", syncAllBranches |-> FALSE,
            useMainAsFallback |-> TRUE, syncTags |-> ""]
  /\ mergeBaseFaults = FALSE
  /\ src = NoRefs
  /\ dst = NoRefs
  /\ srcTags = NoTags
  /\ dstTags = NoTags
  /\ runs = 1
  /\ RunIdle
  /\ prevOutcome = "none"
  /\ dstAtStart = NoRefs

Answer(fn, mergeBase, modCheck, isAhead) ==
  [fn |-> fn, mergeBase |-> mergeBase, isModified |-> modCheck.isModified,
   details |-> modCheck.details, isAhead |-> isAhead]

NoCheck == [isModified |-> FALSE, details |-> ""]

ProbeModified ==
  /\ answer = NoAnswer
  /\ LET mergeBase == getMergeBase(probe.spawned, probe.stdout)
     IN  answer' = Answer("hasDestinationBeenModified", mergeBase,
                     hasDestinationBeenModified(probe.destCommit, probe.sourceCommit,
                                                mergeBase), FALSE)
  /\ UNCHANGED <<cfg, mergeBaseFaults, src, dst, srcTags, dstTags, runs, pc, kind, origin, source,
                 localTags, names, mapping, todel, idx, ops, outcome, prevOutcome,
                 dstAtStart, probe>>

ProbeModifiedGerrit ==
  /\ answer = NoAnswer
  /\ LET mergeBase == getMergeBaseGerrit(probe.spawned, probe.stdout)
     IN  answer' = Answer("hasDestinationBeenModifiedGerrit", mergeBase,
                     hasDestinationBeenModifiedGerrit(probe.destCommit,
                                                      probe.sourceCommit, mergeBase),
                     FALSE)
  /\ UNCHANGED <<cfg, mergeBaseFaults, src, dst, srcTags, dstTags, runs, pc, kind, origin, source,
                 localTags, names, mapping, todel, idx, ops, outcome, prevOutcome,
                 dstAtStart, probe>>

ProbeModifiedUtil ==
  /\ answer = NoAnswer
  /\ LET mergeBase == getMergeBaseUtil(probe.spawned, probe.stdout)
     IN  answer' = Answer("hasDestinationBeenModifiedUtil", mergeBase,
                     hasDestinationBeenModifiedUtil(probe.destCommit,
                                                    probe.sourceCommit, mergeBase),
                     FALSE)
  /\ UNCHANGED <<cfg, mergeBaseFaults, src, dst, srcTags, dstTags, runs, pc, kind, origin, source,
                 localTags, names, mapping, todel, idx, ops, outcome, prevOutcome,
                 dstAtStart, probe>>

ProbeAhead ==
  /\ answer = NoAnswer
  /\ LET mergeBase == getMergeBase(probe.spawned, probe.stdout)
     IN  answer' = Answer("isSourceAheadOfDestination", mergeBase, NoCheck,
                     isSourceAheadOfDestination(probe.destCommit, probe.sourceCommit,
                                                mergeBase))
  /\ UNCHANGED <<cfg, mergeBaseFaults, src, dst, srcTags, dstTags, runs, pc, kind, origin, source,
                 localTags, names, mapping, todel, idx, ops, outcome, prevOutcome,
                 dstAtStart, probe>>

ProbeAheadGerrit ==
  /\ answer = NoAnswer
  /\ LET mergeBase == getMergeBaseGerrit(probe.spawned, probe.stdout)
     IN  answer' = Answer("isSourceAheadOfDestinationGerrit", mergeBase, NoCheck,
                     isSourceAheadOfDestinationGerrit(probe.destCommit,
                                                      probe.sourceCommit, mergeBase))
  /\ UNCHANGED <<cfg, mergeBaseFaults, src, dst, srcTags, dstTags, runs, pc, kind, origin, source,
                 localTags, names, mapping, todel, idx, ops, outcome, prevOutcome,
                 dstAtStart, probe>>

ClassifyNext ==
  \/ ProbeModified
  \/ ProbeModifiedGerrit
  \/ ProbeModifiedUtil
  \/ ProbeAhead
  \/ ProbeAheadGerrit

SpecClassify == ClassifyInit /\ [][ClassifyNext]_vars

(***************************************************************************)
(* The two single-branch flows side by side: the same destination commit,  *)
(* source commit and merge base are handed to the decision of syncBranches *)
(* and then to the decision of syncBranchesGerrit.                         *)
(***************************************************************************)
\* what a flow does with the pair: abort, push, or push with --force
Decision(d) ==
  [action |-> IF d.blocked THEN "abort" ELSE IF d.force THEN "force" ELSE "push",
   ns |-> d.ns]

RouteStandard ==
  /\ answer = NoAnswer
  /\ LET mergeBase == getMergeBase(probe.spawned, probe.stdout)
     IN  answer' = [fn |-> "syncBranches",
                    standard |-> Decision(syncBranchDecision(probe.destCommit,
                                   probe.sourceCommit, mergeBase, mergeBase))]
  /\ UNCHANGED <<cfg, mergeBaseFaults, src, dst, srcTags, dstTags, runs, pc, kind, origin, source,
                 localTags, names, mapping, todel, idx, ops, outcome, prevOutcome,
                 dstAtStart, probe>>

RouteGerrit ==
  /\ answer.fn = "syncBranches"
  /\ LET mergeBase == getMergeBaseGerrit(probe.spawned, probe.stdout)
     IN  answer' = [fn |-> "syncBranchesGerrit",
                    standard |-> answer.standard,
                    gerrit |-> Decision(syncBranchDecisionGerrit(probe.destCommit,
                                 probe.sourceCommit, mergeBase, mergeBase))]
  /\ UNCHANGED <<cfg, mergeBaseFaults, src, dst, srcTags, dstTags, runs, pc, kind, origin, source,
                 localTags, names, mapping, todel, idx, ops, outcome, prevOutcome,
                 dstAtStart, probe>>

RouteNext == RouteStandard \/ RouteGerrit

SpecRoute == ClassifyInit /\ [][RouteNext]_vars

(***************************************************************************)
(* Authentication: run() validates the credentials against the protocols   *)
(* of the two URLs, picks the token and writes it into the HTTPS URLs.     *)
(***************************************************************************)
\* isSSHUrl
isSSHUrl(url) ==
  StartsWith(Spell(url), Spell("git@")) \/ StartsWith(Spell(url), Spell("ssh://"))

\* isHTTPSUrl
isHTTPSUrl(url) == StartsWith(Spell(url), Spell("https://"))

\* validateRepoAuth: the errors for one repository, by the field they name
validateRepoAuth(repoName, repoUrl, hasSSHAuth, hasTokenAuth) ==
  LET isSSH   == isSSHUrl(repoUrl)
      isHTTPS == isHTTPSUrl(repoUrl)
  IN  (IF isSSH /\ ~hasSSHAuth THEN << <<repoName, "ssh without ssh key">> >> ELSE << >>)
      \o (IF isSSH /\ hasTokenAuth /\ ~hasSSHAuth
            THEN << <<repoName, "ssh with token">> >> ELSE << >>)
      \o (IF isHTTPS /\ ~hasTokenAuth
            THEN << <<repoName, "https without token">> >> ELSE << >>)
      \o (IF isHTTPS /\ hasSSHAuth /\ ~hasTokenAuth
            THEN << <<repoName, "https with ssh key">> >> ELSE << >>)

\* validateAuthentication: token authentication is github_token or the three
\* GitHub App inputs; source_token and destination_token are not looked at
validateAuthentication(inputs) ==
  LET hasTokenAuth == \/ inputs.githubToken # ""
                      \/ /\ inputs.githubAppId # ""
                         /\ inputs.githubAppPrivateKey # ""
                         /\ inputs.githubAppInstallationId # ""
      hasSSHAuth   == inputs.sshKey # "" \/ inputs.sshKeyPath # ""
      errors ==
        validateRepoAuth("source", inputs.sourceRepo, hasSSHAuth, hasTokenAuth)
        \o validateRepoAuth("destination", inputs.destinationRepo, hasSSHAuth, hasTokenAuth)
        \o (IF inputs.githubAppId # "" /\ inputs.githubAppPrivateKey = ""
              THEN << <<"github_app_private_key", "missing">> >> ELSE << >>)
        \o (IF inputs.githubAppId # "" /\ inputs.githubAppInstallationId = ""
              THEN << <<"github_app_installation_id", "missing">> >> ELSE << >>)
        \o (IF inputs.githubAppPrivateKey # "" /\ inputs.githubAppId = ""
              THEN << <<"github_app_id", "missing">> >> ELSE << >>)
      warnings ==
        (IF hasTokenAuth /\ isSSHUrl(inputs.sourceRepo) /\ isSSHUrl(inputs.destinationRepo)
           THEN <<"token unused">> ELSE << >>)
        \o (IF hasSSHAuth /\ isHTTPSUrl(inputs.sourceRepo)
                          /\ isHTTPSUrl(inputs.destinationRepo)
              THEN <<"ssh key unused">> ELSE << >>)
  IN  [isValid |-> errors = << >>, errors |-> errors, warnings |-> warnings,
       hasTokenAuth |-> hasTokenAuth, hasSSHAuth |-> hasSSHAuth]

\* detectAuthenticationMethods: SSH is needed when one of the URLs is an SSH URL
detectAuthenticationMethods(sourceRepo, destinationRepo) ==
  [needsSSH |-> isSSHUrl(sourceRepo) \/ isSSHUrl(destinationRepo),
   sourceIsSSH |-> isSSHUrl(sourceRepo),
   destinationIsSSH |-> isSSHUrl(destinationRepo)]

\* authenticate: null for SSH, else destination_token, else github_token,
\* else the installation token of the GitHub App, else an error
authenticate(inputs) ==
  IF detectAuthenticationMethods(inputs.sourceRepo, inputs.destinationRepo).needsSSH
    THEN [threw |-> FALSE, token |-> ""]
  ELSE IF inputs.destinationToken # ""
    THEN [threw |-> FALSE, token |-> inputs.destinationToken]
  ELSE IF inputs.githubToken # ""
    THEN [threw |-> FALSE, token |-> inputs.githubToken]
  ELSE IF /\ inputs.githubAppId # ""
          /\ inputs.githubAppPrivateKey # ""
          /\ inputs.githubAppInstallationId # ""
    THEN [threw |-> FALSE, token |-> "tokA"]
  ELSE [threw |-> TRUE, token |-> ""]

\* https:// replaced by https://x-access-token:<token>@
WithToken(url, token) ==
  ReplaceFirst(Spell(url), Spell("https://"),
               Spell("https://x-access-token:") \o Spell(token) \o Spell("@"))

\* prepareUrls: the token goes into the HTTPS URLs; the source takes
\* source_token, or the destination's token when there is none
prepareUrls(sourceRepo, destinationRepo, destinationToken, sourceToken) ==
  LET effectiveSourceToken == IF sourceToken # "" THEN sourceToken ELSE destinationToken
  IN  [srcUrl |-> IF effectiveSourceToken # "" /\ isHTTPSUrl(sourceRepo)
                    THEN WithToken(sourceRepo, effectiveSourceToken)
                    ELSE Spell(sourceRepo),
       dstUrl |-> IF destinationToken # "" /\ isHTTPSUrl(destinationRepo)
                    THEN WithToken(destinationRepo, destinationToken)
                    ELSE Spell(destinationRepo)]

\* the credentials and URLs the action is given
AuthInputs ==
  [sourceRepo              : {"https://code.example.com/r/p", "git@github.com:o/r.git"},
   destinationRepo         : {"https://github.com/o/r.git",
                              "ssh://review.example.com:29418/p"},
   githubToken             : {"", "tokG"},
   sourceToken             : {"", "tokS"},
   destinationToken        : {"", "tokD"},
   githubAppId             : {"", "tokA"},
   githubAppPrivateKey     : {"", "tokA"},
   githubAppInstallationId : {"", "tokA"},
   sshKey                  : {"", "tokS"},
   sshKeyPath              : {""}]

AuthInit ==
  /\ probe \in AuthInputs
  /\ answer = [fn |-> "none"]
  /\ cfg = [destinationRepo |-> "https://github.com/o/r.git", sourceBranch |-> "main",
            destinationBranch |-> "main", syncAllBranches |-> FALSE,
            useMainAsFallback |-> TRUE, syncTags |-> ""]
  /\ mergeBaseFaults = FALSE
  /\ src = NoRefs
  /\ dst = NoRefs
  /\ srcTags = NoTags
  /\ dstTags = NoTags
  /\ runs = 1
  /\ RunIdle
  /\ prevOutcome = "none"
  /\ dstAtStart = NoRefs

\* run(): validateAuthentication, and the error thrown on an invalid result
RunValidate ==
  /\ answer.fn = "none"
  /\ LET v == validateAuthentication(probe)
     IN  answer' = [fn |-> "validateAuthentication", isValid |-> v.isValid,
                    errors |-> v.errors, warnings |-> v.warnings,
                    stage |-> IF v.isValid THEN "validated" ELSE "failed"]
  /\ UNCHANGED <<cfg, mergeBaseFaults, src, dst, srcTags, dstTags, runs, pc, kind, origin,
                 source, localTags, names, mapping, todel, idx, ops, outcome,
                 prevOutcome, dstAtStart, probe>>

\* run(): authenticate and prepareUrls, up to the clone
RunAuthenticate ==
  /\ answer.fn = "validateAuthentication"
  /\ answer.isValid
  /\ LET a == authenticate(probe)
         u == prepareUrls(probe.sourceRepo, probe.destinationRepo, a.token,
                          probe.sourceToken)
     IN  answer' = [fn |-> "authenticate", isValid |-> TRUE, threw |-> a.threw,
                    token |-> a.token,
                    srcUrl |-> IF a.threw THEN << >> ELSE u.srcUrl,
                    dstUrl |-> IF a.threw THEN << >> ELSE u.dstUrl,
                    stage |-> IF a.threw THEN "failed" ELSE "clone"]
  /\ UNCHANGED <<cfg, mergeBaseFaults, src, dst, srcTags, dstTags, runs, pc, kind, origin,
                 source, localTags, names, mapping, todel, idx, ops, outcome,
                 prevOutcome, dstAtStart, probe>>

AuthNext == RunValidate \/ RunAuthenticate

SpecAuth == AuthInit /\ [][AuthNext]_vars

(***************************************************************************)
(* Properties                                                              *)
(***************************************************************************)
Has(refs, n) == n \in Names /\ refs[n] # NULL

\* the two commits share history: git finds a merge base
Related(d, s) == Ancestors(d) \cap Ancestors(s) # {}

\* the verdict on a destination commit d and a source commit s, read off the
\* history itself
Verdict(d, s) ==
  IF d = NULL THEN "EMPTY_DESTINATION"
  ELSE IF s = NULL THEN "NO_SOURCE"
  ELSE IF ~Related(d, s) THEN "UNRELATED"
  ELSE IF d \in Ancestors(s) THEN "CLEAN_AHEAD"
  ELSE "DIVERGED"

OpIndices == 1..Len(ops)

\* the source branch of single-branch mode, read off the fetched refs
SingleSource ==
  IF Has(source, cfg.sourceBranch) THEN cfg.sourceBranch
  ELSE IF cfg.useMainAsFallback /\ Has(source, "main") THEN "main"
  ELSE IF cfg.useMainAsFallback /\ Has(source, "master") THEN "master"
  ELSE NULL

SingleVerdict ==
  IF SingleSource = NULL THEN "NO_SOURCE"
  ELSE Verdict(dstAtStart[cfg.destinationBranch], source[SingleSource])

\* C1: no branch push of a run discards commits of the destination; for
\* every push to a destination branch that already existed, every commit
\* reachable from its head before the push is reachable from its head after
\* the push.
C1_NoPushDiscardsCommits ==
  \A i \in OpIndices :
    (IsBranchPush(ops[i]) /\ ops[i].before # NULL)
      => Ancestors(ops[i].before) \subseteq Ancestors(ops[i].after)

\* C2: in single-branch mode (standard and Gerrit), when the destination ref
\* and the source ref resolve, have a merge base and the destination commit
\* is not that merge base (DIVERGED), the run is marked failed and has
\* executed no push at all, of a branch or of a tag.
C2_DivergedSingleAborts ==
  (/\ ~cfg.syncAllBranches
   /\ pc \in {"tags", "done"}
   /\ SingleVerdict = "DIVERGED")
    => /\ pc = "done"
       /\ outcome = "failed"
       /\ \A i \in OpIndices : ~IsPush(ops[i])
       /\ dst = dstAtStart

C2_Witness ==
  /\ ~cfg.syncAllBranches
  /\ pc = "done"
  /\ SingleVerdict = "DIVERGED"
  /\ outcome = "failed"
  /\ kind = "gerrit"

ModifiedFns == {"hasDestinationBeenModified", "hasDestinationBeenModifiedGerrit",
                "hasDestinationBeenModifiedUtil"}

ProbeHasMergeBase == probe.spawned /\ probe.stdout # ""

\* C3: for every triple (destCommit, sourceCommit, mergeBase), each possibly
\* absent, the divergence check reports isModified = true exactly when the
\* three exist and destCommit differs from mergeBase.
C3_BlockingIffDiverged ==
  answer.fn \in ModifiedFns =>
    (answer.isModified <=>
       /\ probe.destCommit # NULL
       /\ probe.sourceCommit # NULL
       /\ ProbeHasMergeBase
       /\ probe.destCommit # probe.stdout)

C3_Witness ==
  /\ answer.fn = "hasDestinationBeenModifiedUtil"
  /\ answer.isModified
  /\ probe.destCommit = "c4"
  /\ probe.sourceCommit = "c3"
  /\ probe.stdout = "c2"

\* C4: the classifier answers "No common history" (UNRELATED) exactly when
\* the destination commit and the source commit exist and git merge-base
\* yields no merge base; never when a ref is missing or a merge base exists.
C4_UnrelatedIffNoMergeBase ==
  answer.fn \in ModifiedFns =>
    (answer.details = "No common history" <=>
       /\ probe.destCommit # NULL
       /\ probe.sourceCommit # NULL
       /\ ~ProbeHasMergeBase)

C4_Witness ==
  /\ answer.fn = "hasDestinationBeenModifiedGerrit"
  /\ answer.details = "No common history"
  /\ probe.destCommit = "c5"
  /\ probe.sourceCommit = "c3"
  /\ probe.spawned

\* C5 as stated: whenever the destination ref does not exist
\* (EMPTY_DESTINATION), or both refs exist without a merge base (UNRELATED),
\* the branch push of the pair carries --force, to refs/heads/<dest> on a
\* standard destination and to refs/for/<dest> on Gerrit.
C5_ForceOnEmptyOrUnrelated ==
  \A i \in OpIndices :
    (/\ IsBranchPush(ops[i])
     /\ Verdict(ops[i].seen, source[ops[i].from]) \in {"EMPTY_DESTINATION", "UNRELATED"})
      => /\ ops[i].force
         /\ ops[i].ns = IF kind = "gerrit" THEN "for" ELSE "heads"

\* C6 as stated: whenever the destination commit exists and is the merge base
\* with the source (CLEAN_AHEAD), identical commits included, the branch push
\* of the pair carries no --force and the run completes.
C6_NoForceOnCleanAhead ==
  /\ \A i \in OpIndices :
       (/\ IsBranchPush(ops[i])
        /\ Verdict(ops[i].seen, source[ops[i].from]) = "CLEAN_AHEAD")
         => ~ops[i].force
  /\ (/\ ~cfg.syncAllBranches
      /\ kind = "standard"
      /\ pc = "done"
      /\ SingleVerdict = "CLEAN_AHEAD")
       => outcome = "completed"

\* C7 as stated: idempotence on a standard destination; a run started after a
\* completed run, with no change to either repository in between, meets no
\* DIVERGED verdict, executes only branch pushes without --force, leaves
\* every destination branch where it was and completes.
C7_SecondRunIsQuiet ==
  (/\ runs > 1
   /\ prevOutcome = "completed"
   /\ kind = "standard")
    => /\ \A i \in OpIndices : IsBranchPush(ops[i]) => ~ops[i].force
       /\ pc = "done" => (outcome = "completed" /\ dst = dstAtStart)

\* the kind the destination URL of the run stands for
GerritUrls == {"https://Gerrit.example.com/p"}
ExpectedKind == IF cfg.destinationRepo \in GerritUrls THEN "gerrit" ELSE "standard"

C8_KindDecidesEveryPush ==
  /\ kind = "unset" => ops = << >>
  /\ kind # "unset" =>
       /\ kind = ExpectedKind
       /\ \A i \in OpIndices :
            /\ ops[i].flow = kind
            /\ IsBranchPush(ops[i]) =>
                 ops[i].ns = IF kind = "gerrit" THEN "for" ELSE "heads"

\* C8: the repository kind is computed from the destination URL before any
\* push and does not change during the run; in a GERRIT run every branch push
\* goes to refs/for/<dest>, in a STANDARD run to refs/heads/<dest>, and the
\* tag sync of the run is the one of the same kind.
C8_KindFixedForTheRun ==
  /\ []C8_KindDecidesEveryPush
  /\ [][(kind # "unset" /\ pc' # "start") => kind' = kind]_vars

C8_Witness ==
  /\ kind = "gerrit"
  /\ pc = "done"
  /\ \E i \in OpIndices : IsBranchPush(ops[i]) /\ ops[i].ns = "for"
  /\ \E i \in OpIndices : IsTagPush(ops[i]) /\ ops[i].flow = "gerrit"

\* the source branches in the order git lists them, and where each goes
EnumeratedNames == SelectSeq(BranchOrder, LAMBDA n : source[n] # NULL)
MapTo(n) == IF n = cfg.sourceBranch THEN cfg.destinationBranch ELSE n
BranchPushes == SelectSeq(ops, IsBranchPush)

C9_PushesFollowEnumeration ==
  cfg.syncAllBranches =>
    \A k \in 1..Len(BranchPushes) :
      /\ k <= Len(EnumeratedNames)
      /\ BranchPushes[k].from = EnumeratedNames[k]
      /\ BranchPushes[k].to = MapTo(EnumeratedNames[k])
      /\ Verdict(BranchPushes[k].seen, source[BranchPushes[k].from]) # "DIVERGED"

C9_DivergedPairStopsTheRun ==
  (/\ pc = "pairs"
   /\ Verdict(origin[MapTo(EnumeratedNames[idx])], source[EnumeratedNames[idx]])
        = "DIVERGED")
    => /\ pc' = "done"
       /\ outcome' = "failed"
       /\ ops' = ops
       /\ dst' = dst
       /\ dstTags' = dstTags

C9_NothingAfterFailure ==
  outcome = "failed" => (pc' = "start" /\ ops' = << >> /\ dst' = dst /\ dstTags' = dstTags)

\* C9: in all-branch mode the pairs are processed in the order the source
\* branches are enumerated, and the first pair found DIVERGED fails the run
\* at once: no push for it or for a later pair, and no tag sync.
C9_AllBranchFailFast ==
  /\ []C9_PushesFollowEnumeration
  /\ [][C9_DivergedPairStopsTheRun]_vars
  /\ [][C9_NothingAfterFailure]_vars

C9_Witness ==
  /\ cfg.syncAllBranches
  /\ kind = "standard"
  /\ pc = "done"
  /\ outcome = "failed"
  /\ idx >= 2
  /\ idx <= Len(names)
  /\ Verdict(origin[mapping[names[idx]]], source[names[idx]]) = "DIVERGED"
  /\ \E i \in OpIndices : IsBranchPush(ops[i]) /\ ops[i].ok
  /\ \A i \in OpIndices : ~IsTagPush(ops[i])

\* C10 as stated: in all-branch mode the mapping sends the configured source
\* branch to the configured destination branch and every other source branch
\* to its own name, and the branches submitted for deletion are exactly the
\* destination branches that are no value of the mapping.
C10_MappingAndDeletionSet ==
  (/\ cfg.syncAllBranches
   /\ kind = "standard"
   /\ pc \notin {"start", "branches"})
    => /\ mapping = [n \in SeqToSet(EnumeratedNames) |-> MapTo(n)]
       /\ SeqToSet(todel) =
            {b \in Names : /\ dstAtStart[b] # NULL
                           /\ b \notin {MapTo(n) : n \in SeqToSet(EnumeratedNames)}}

\* the destination branches no source branch maps to
DestinationOnly ==
  {b \in Names : /\ dstAtStart[b] # NULL
                 /\ b \notin {MapTo(n) : n \in SeqToSet(EnumeratedNames)}}

\* C11 as stated: in all-branch mode a branch that exists only in the
\* destination (no source branch maps to it) is not affected by the run; it
\* is neither deleted nor moved to another commit.
C11_DestinationOnlyUntouched ==
  (cfg.syncAllBranches /\ pc # "start")
    => \A b \in DestinationOnly : dst[b] = dstAtStart[b]

\* the branch single-branch mode is to push when the configured branch is
\* there or the fallback is enabled: the configured one, else main, else master
FallbackChoice ==
  IF Has(source, cfg.sourceBranch) THEN cfg.sourceBranch
  ELSE IF Has(source, "main") THEN "main"
  ELSE IF Has(source, "master") THEN "master"
  ELSE NULL

\* C12: in single-branch mode the branch pushed is the configured source
\* branch whenever the source has it; otherwise, with the fallback enabled, it
\* is main if present, else master if present; if neither is present the run
\* fails and no push is executed.
C12_FallbackSelection ==
  (/\ ~cfg.syncAllBranches
   /\ pc \in {"tags", "done"}
   /\ (Has(source, cfg.sourceBranch) \/ cfg.useMainAsFallback))
    => /\ \A i \in OpIndices :
            IsBranchPush(ops[i]) => /\ ops[i].from = FallbackChoice
                                    /\ ops[i].to = cfg.destinationBranch
       /\ (pc = "tags" \/ outcome = "completed")
            => \E i \in OpIndices : IsBranchPush(ops[i]) /\ ops[i].ok
       /\ FallbackChoice = NULL
            => /\ pc = "done"
               /\ outcome = "failed"
               /\ \A i \in OpIndices : ~IsPush(ops[i])

C12_Witness ==
  /\ ~cfg.syncAllBranches
  /\ kind = "standard"
  /\ pc = "done"
  /\ cfg.sourceBranch = "main"
  /\ ~Has(source, "main")
  /\ Has(source, "master")
  /\ \E i \in OpIndices : IsBranchPush(ops[i]) /\ ops[i].from = "master" /\ ops[i].ok

\* C13: in single-branch mode with the fallback disabled, a configured source
\* branch that the source does not have fails the run, and no push is
\* executed, even when main or master exists in the source.
C13_NoFallbackIsFatal ==
  (/\ ~cfg.syncAllBranches
   /\ ~cfg.useMainAsFallback
   /\ pc \in {"tags", "done"}
   /\ ~Has(source, cfg.sourceBranch))
    => /\ pc = "done"
       /\ outcome = "failed"
       /\ \A i \in OpIndices : ~IsPush(ops[i])
       /\ dst = dstAtStart

C13_Witness ==
  /\ ~cfg.syncAllBranches
  /\ ~cfg.useMainAsFallback
  /\ kind = "gerrit"
  /\ pc = "done"
  /\ outcome = "failed"
  /\ cfg.sourceBranch = "develop"
  /\ Has(source, "main")
  /\ ops = << >>

\* C14 as stated: a git merge-base that could not be executed is not taken
\* for "no merge base"; the run fails at that point and no push (in
\* particular no forced push) is executed for the pair.
C14_MergeBaseFailureIsFatal ==
  \A i \in OpIndices :
    (ops[i].op = "merge-base" /\ ~ops[i].ok)
      => /\ outcome = "failed"
         /\ \A j \in OpIndices : j > i => ~IsPush(ops[j])

\* the pushes of all tags (git push origin --tags) of the run, in order
AllTagPushes == SelectSeq(ops, LAMBDA o : o.op = "pushtags")
TagSyncStarted == \E i \in OpIndices : ops[i].op = "fetchtags"

\* one push without --force, and one with --force after it exactly when the
\* first was refused
NoForceFirst(pushes) ==
  /\ Len(pushes) \in {1, 2}
  /\ ~pushes[1].force
  /\ (Len(pushes) = 2) <=> ~pushes[1].ok
  /\ Len(pushes) = 2 => pushes[2].force

\* C15 as stated: with sync_tags "true", on a STANDARD destination the push
\* of all tags is executed with force; on a GERRIT destination it is executed
\* without force first, and with force only if that push was rejected.
C15_AllTagsForceByKind ==
  (cfg.syncTags = "true" /\ pc = "done" /\ TagSyncStarted)
    => IF kind = "standard"
         THEN /\ AllTagPushes # << >>
              /\ \A k \in 1..Len(AllTagPushes) : AllTagPushes[k].force
         ELSE NoForceFirst(AllTagPushes)

\* C15 amended: with sync_tags "true", on a STANDARD and on a GERRIT
\* destination alike the tags are fetched, the push of all tags is executed
\* without force first, and a push with force is executed only if that push
\* was rejected.
C15_AllTagsNoForceFirst ==
  (cfg.syncTags = "true" /\ pc = "done" /\ TagSyncStarted)
    => /\ NoForceFirst(AllTagPushes)
       /\ \A i \in OpIndices :
            ops[i].op = "pushtags" => \E j \in 1..(i - 1) : ops[j].op = "fetchtags"
       /\ \A i \in OpIndices : ops[i].op # "pushtag"

C15_Witness ==
  /\ cfg.syncTags = "true"
  /\ kind = "standard"
  /\ pc = "done"
  /\ outcome = "completed"
  /\ Len(AllTagPushes) = 2
  /\ AllTagPushes[2].ok
  /\ dstTags = srcTags

\* the tags of the source a pattern selects
PatternTags(pattern) == CASE pattern = "v" -> {"v1", "v2"} [] OTHER -> {}
PatternMode == cfg.syncTags \notin {"", "true"}
PushedTags == {ops[i].to : i \in {k \in OpIndices : ops[k].op = "pushtag"}}

\* C16: with sync_tags a pattern, the tags are fetched first; then the tags
\* whose name matches the pattern are pushed, each by its own push of
\* refs/tags/<tag>:refs/tags/<tag>; no other tag is ever pushed, and the
\* pushes do not depend on any merge-base check (every matching tag is pushed
\* unless a forced retry before it was refused).
C16_PatternTagsOnly ==
  (PatternMode /\ pc = "done" /\ TagSyncStarted)
    => /\ \A i \in OpIndices :
            ops[i].op = "pushtag"
              => /\ ops[i].from = ops[i].to
                 /\ ops[i].to \in PatternTags(cfg.syncTags)
                 /\ \E j \in 1..(i - 1) : ops[j].op = "fetchtags"
       /\ \A i \in OpIndices : ops[i].op # "pushtags"
       /\ (\A i \in OpIndices : (ops[i].op = "pushtag" /\ ops[i].force) => ops[i].ok)
            => /\ PushedTags = PatternTags(cfg.syncTags)
               /\ \A t \in PatternTags(cfg.syncTags) : dstTags[t] = srcTags[t]
       /\ dstTags["rc1"] = NULL

C16_Witness ==
  /\ PatternMode
  /\ kind = "standard"
  /\ pc = "done"
  /\ outcome = "completed"
  /\ \E i \in OpIndices : ops[i].op = "pushtag" /\ ops[i].to = "v1" /\ ops[i].force /\ ops[i].ok
  /\ \E i \in OpIndices : ops[i].op = "pushtag" /\ ops[i].to = "v2" /\ ops[i].ok
  /\ localTags["rc1"] # NULL

C17_NoTagCommand ==
  cfg.syncTags = ""
    => /\ \A i \in OpIndices : ops[i].op \notin {"fetchtags", "pushtags", "pushtag"}
       /\ (pc = "done" /\ kind # "unset") => localTags = FollowedTagsOf(dstAtStart)

\* C17: with sync_tags empty, tag sync is a no-op: no tag fetch and no tag
\* push is executed and the destination's tags are left as they were.
C17_EmptyIsNoOp ==
  /\ []C17_NoTagCommand
  /\ [][cfg.syncTags = "" => dstTags' = dstTags]_vars

C17_Witness ==
  /\ cfg.syncTags = ""
  /\ kind = "standard"
  /\ pc = "done"
  /\ outcome = "completed"
  /\ \E i \in OpIndices : IsBranchPush(ops[i]) /\ ops[i].ok
  /\ \E t \in TagNames : srcTags[t] # NULL /\ dstTags[t] = NULL

\* C18 as stated: on Gerrit, a branch push to refs/for/<dest> without --force
\* that is rejected is retried once with --force, and the run fails only if
\* that retry is rejected as well.
C18_GerritBranchPushRetried ==
  \A i \in OpIndices :
    (IsBranchPush(ops[i]) /\ ops[i].ns = "for" /\ ~ops[i].force /\ ~ops[i].ok)
      => /\ i < Len(ops)
         /\ IsBranchPush(ops[i + 1])
         /\ ops[i + 1].force
         /\ ops[i + 1].from = ops[i].from
         /\ ops[i + 1].to = ops[i].to
         /\ (outcome = "failed" /\ i + 1 = Len(ops)) => ~ops[i + 1].ok

\* C19 as stated: a tag push is attempted at most twice, without force and
\* then, only after that failed, with force; and when the forced retry fails
\* too the run is marked failed (standard and Gerrit).
C19_TagRetryThenFatal ==
  /\ \A i \in OpIndices :
       (IsTagPush(ops[i]) /\ ops[i].force)
         => /\ i > 1
            /\ IsTagPush(ops[i - 1])
            /\ ~ops[i - 1].force
            /\ ~ops[i - 1].ok
            /\ ops[i - 1].to = ops[i].to
  /\ \A t \in TagNames \cup {""} :
       Cardinality({i \in OpIndices : IsTagPush(ops[i]) /\ ops[i].to = t}) <= 2
  /\ \A i \in OpIndices :
       (IsTagPush(ops[i]) /\ ops[i].force /\ ~ops[i].ok)
         => (pc = "done" /\ outcome = "failed")

\* one step of the deletion loop: the deletion is attempted, the run is not
\* failed, and the loop goes on to the next branch or to the pushes
C20_DeleteStep ==
  pc = "delete"
    => /\ outcome' = outcome
       /\ Len(ops') = Len(ops) + 1
       /\ ops'[Len(ops')].op = "delete"
       /\ ops'[Len(ops')].to = todel[idx]
       /\ idx < Len(todel) => (pc' = "delete" /\ idx' = idx + 1)
       /\ idx = Len(todel)
            => (idx' = 1 /\ pc' = IF names # << >> THEN "pairs" ELSE "tags")
       /\ \A b \in Names : b # todel[idx] => dst'[b] = dst[b]

Deletions == SelectSeq(ops, LAMBDA o : o.op = "delete")

\* every deletion is attempted, no branch a push goes to is among them, and a
\* failed run is explained by a DIVERGED pair or a refused tag push, never by
\* a deletion; a completed run has pushed every source branch
C20_RunIgnoresDeletionResult ==
  (cfg.syncAllBranches /\ kind = "standard" /\ pc \in {"pairs", "tags", "done"})
    => /\ [k \in 1..Len(Deletions) |-> Deletions[k].to] = todel
       /\ \A n \in DOMAIN mapping : mapping[n] \notin SeqToSet(todel)
       /\ (pc = "done" /\ outcome = "failed")
            => \/ /\ idx \in 1..Len(names)
                  /\ Verdict(origin[mapping[names[idx]]], source[names[idx]]) = "DIVERGED"
                  /\ \A i \in OpIndices : ~IsTagPush(ops[i])
               \/ \E i \in OpIndices : IsTagPush(ops[i]) /\ ops[i].force /\ ~ops[i].ok
       /\ (pc = "done" /\ outcome = "completed")
            => /\ Len(BranchPushes) = Len(names)
               /\ \A k \in 1..Len(BranchPushes) : BranchPushes[k].ok

\* C20: in all-branch mode on a standard destination a failed deletion of a
\* destination-only branch does not fail the run: the remaining deletions and
\* every branch push are still attempted, and the outcome of the run is what
\* it is when the deletion succeeds.
C20_DeletionFailureIsNotFatal ==
  /\ [][C20_DeleteStep]_vars
  /\ []C20_RunIgnoresDeletionResult

C20_Witness ==
  /\ cfg.syncAllBranches
  /\ kind = "standard"
  /\ pc = "done"
  /\ outcome = "completed"
  /\ Len(Deletions) >= 2
  /\ ~Deletions[1].ok
  /\ dst[Deletions[1].to] # NULL
  /\ \E i \in OpIndices : IsBranchPush(ops[i]) /\ ops[i].ok

IsTagOp(o) == o.op \in {"fetchtags", "pushtags", "pushtag"}
IsBranchOp(o) == IsBranchPush(o) \/ o.op = "delete"

\* in the log every branch operation comes before every tag operation, and
\* while the branch sync is in progress no tag operation has been executed
C21_BranchesBeforeTags ==
  /\ \A i \in OpIndices : \A j \in OpIndices :
       (IsTagOp(ops[i]) /\ IsBranchOp(ops[j])) => j < i
  /\ pc \in {"start", "branches", "delete", "pairs"}
       => \A i \in OpIndices : ~IsTagOp(ops[i])

\* a step executes a tag operation only from the end of an unfailed branch
\* sync, and a step that fails the branch sync executes none
C21_TagStep ==
  (Len(ops') > Len(ops) /\ IsTagOp(ops'[Len(ops')]))
    => /\ pc = "tags"
       /\ outcome = "none"
       /\ \A i \in OpIndices : ~IsTagOp(ops[i])

\* C21: within a run the tag sync starts only after the branch sync has
\* finished: no tag fetch or tag push comes before the last branch push, and
\* when the branch sync fails no tag operation is executed at all.
C21_TagSyncAfterBranchSync ==
  /\ []C21_BranchesBeforeTags
  /\ [][C21_TagStep]_vars
  /\ [][(pc \in {"branches", "delete", "pairs"} /\ outcome' = "failed")
          => (pc' = "done" /\ \A i \in 1..Len(ops') : ~IsTagOp(ops'[i]))]_vars

C21_Witness ==
  /\ pc = "done"
  /\ outcome = "completed"
  /\ cfg.syncAllBranches
  /\ Len(BranchPushes) >= 2
  /\ \E i \in OpIndices : ops[i].op = "pushtag" /\ ops[i].ok

\* the fatal errors of a run, read off its end state
NoSourceBranch == ~cfg.syncAllBranches /\ SingleSource = NULL
DivergedPairMet ==
  IF cfg.syncAllBranches
    THEN /\ idx \in 1..Len(names)
         /\ Verdict(origin[mapping[names[idx]]], source[names[idx]]) = "DIVERGED"
    ELSE SingleSource # NULL /\ SingleVerdict = "DIVERGED"
PushGaveUp ==
  ops # << >> /\ (IsBranchPush(ops[Len(ops)]) \/ IsTagPush(ops[Len(ops)]))
              /\ ~ops[Len(ops)].ok
ForcedTagPushRefused ==
  \E i \in OpIndices : IsTagPush(ops[i]) /\ ops[i].force /\ ~ops[i].ok

\* C22 as stated: every run ends completed or failed; it is failed exactly
\* when a fatal error was raised (no source branch, a DIVERGED pair, a push
\* given up after its retry); nothing is executed after the fatal error; and a
\* tag pattern that matches no tag ends in completed without a tag push.
C22_BinaryOutcome ==
  pc = "done"
    => /\ outcome \in {"completed", "failed"}
       /\ outcome = "failed" => (NoSourceBranch \/ DivergedPairMet \/ PushGaveUp)
       /\ ForcedTagPushRefused => outcome = "failed"
       /\ \A i \in OpIndices :
            ((IsBranchPush(ops[i]) \/ IsTagPush(ops[i])) /\ ops[i].force /\ ~ops[i].ok)
              => i = Len(ops)
       /\ (PatternMode /\ TagSyncStarted /\ PatternTags(cfg.syncTags) = {})
            => (outcome = "completed" /\ PushedTags = {})

\* two HTTPS URLs and the source_token / destination_token pair as the only
\* credentials
TokenPairAlone ==
  /\ isHTTPSUrl(probe.sourceRepo)
  /\ isHTTPSUrl(probe.destinationRepo)
  /\ probe.sourceToken # ""
  /\ probe.destinationToken # ""
  /\ probe.githubToken = ""
  /\ probe.githubAppId = ""
  /\ probe.githubAppPrivateKey = ""
  /\ probe.githubAppInstallationId = ""
  /\ probe.sshKey = ""
  /\ probe.sshKeyPath = ""

\* C23 as stated: for two HTTPS URLs the source_token / destination_token
\* pair alone is an accepted configuration: validation reports it valid and
\* the run reaches the clone with destination_token in the destination URL
\* and source_token in the source URL.
C23_TokenPairAccepted ==
  TokenPairAlone
    => /\ answer.fn = "validateAuthentication"
            => (answer.isValid /\ answer.stage = "validated")
       /\ answer.fn = "authenticate"
            => /\ answer.stage = "clone"
               /\ answer.dstUrl = WithToken(probe.destinationRepo, probe.destinationToken)
               /\ answer.srcUrl = WithToken(probe.sourceRepo, probe.sourceToken)

\* C24: no branch push is executed for a source branch that does not exist:
\* in single-branch mode a source branch missing after the fallback fails the
\* run before any push, and in all-branch mode only enumerated branches are
\* pushed.
C24_NoPushOfMissingSource ==
  /\ \A i \in OpIndices :
       IsBranchPush(ops[i])
         => /\ ops[i].from \in Names
            /\ src[ops[i].from] # NULL
            /\ source[ops[i].from] = src[ops[i].from]
            /\ cfg.syncAllBranches => ops[i].from \in SeqToSet(EnumeratedNames)
  /\ (~cfg.syncAllBranches /\ pc \in {"tags", "done"} /\ SingleSource = NULL)
       => /\ outcome = "failed"
          /\ \A i \in OpIndices : ~IsPush(ops[i])

C24_Witness ==
  /\ ~cfg.syncAllBranches
  /\ cfg.useMainAsFallback
  /\ kind = "gerrit"
  /\ pc = "done"
  /\ outcome = "failed"
  /\ \A n \in {"main", "master"} : source[n] = NULL
  /\ dst["main"] = NULL
  /\ ops = << >>

\* C26: in all-branch mode on a standard destination every deletion of a
\* destination-only branch is attempted before the first divergence check
\* and before the first branch push; a run that fails on a DIVERGED pair has
\* submitted every candidate for deletion.
C26_DeletionsBeforePushes ==
  (cfg.syncAllBranches /\ kind = "standard")
    => /\ \A i \in OpIndices : \A j \in OpIndices :
            (ops[i].op = "delete" /\ IsBranchPush(ops[j])) => i < j
       /\ pc = "pairs" => [k \in 1..Len(Deletions) |-> Deletions[k].to] = todel
       /\ (pc = "done" /\ outcome = "failed" /\ DivergedPairMet)
            => /\ Len(Deletions) = Len(todel)
               /\ \A b \in SeqToSet(todel) : \E i \in OpIndices :
                    ops[i].op = "delete" /\ ops[i].to = b

C26_Witness ==
  /\ cfg.syncAllBranches
  /\ kind = "standard"
  /\ pc = "done"
  /\ outcome = "failed"
  /\ DivergedPairMet
  /\ BranchPushes = << >>
  /\ \E i \in OpIndices :
       ops[i].op = "delete" /\ ops[i].ok /\ dstAtStart[ops[i].to] # NULL
                            /\ dst[ops[i].to] = NULL

\* C27 as stated: in all-branch mode no two enumerated source branches are
\* mapped to the same destination branch, and each destination branch is the
\* target of at most one branch push of the run.
C27_MappingIsInjective ==
  (cfg.syncAllBranches /\ pc \in {"delete", "pairs", "tags", "done"})
    => /\ \A a \in DOMAIN mapping : \A b \in DOMAIN mapping :
            mapping[a] = mapping[b] => a = b
       /\ \A i \in OpIndices : \A j \in OpIndices :
            (IsBranchPush(ops[i]) /\ IsBranchPush(ops[j]) /\ ops[i].to = ops[j].to)
              => i = j

\* C28: whenever a branch push with --force is executed, the destination ref
\* resolved to a commit when the decision was taken; a destination that is
\* missing is always pushed without --force (the "new branch, pushing with
\* force" path is never taken).
C28_ForceOnlyOnExistingDestination ==
  \A i \in OpIndices :
    IsBranchPush(ops[i])
      => /\ ops[i].force => ops[i].seen # NULL
         /\ ops[i].seen = NULL => ~ops[i].force

C28_Witness ==
  /\ pc = "done"
  /\ \E i \in OpIndices : IsBranchPush(ops[i]) /\ ops[i].force /\ ops[i].seen # NULL
  /\ \E i \in OpIndices : IsBranchPush(ops[i]) /\ ~ops[i].force /\ ops[i].seen = NULL

\* C29: a run in all-branch mode that completes has executed exactly one
\* branch push for every enumerated source branch, to its mapped destination
\* branch; no enumerated branch is skipped.
C29_CompletedRunPushedEveryBranch ==
  (cfg.syncAllBranches /\ pc = "done" /\ outcome = "completed")
    => /\ Len(BranchPushes) = Len(EnumeratedNames)
       /\ \A k \in 1..Len(EnumeratedNames) :
            /\ BranchPushes[k].from = EnumeratedNames[k]
            /\ BranchPushes[k].to = MapTo(EnumeratedNames[k])
            /\ BranchPushes[k].ok

C29_Witness ==
  /\ cfg.syncAllBranches
  /\ kind = "gerrit"
  /\ pc = "done"
  /\ outcome = "completed"
  /\ Len(EnumeratedNames) = 3
  /\ Len(BranchPushes) = 3

\* the branch pushes to refs/heads made with a stale snapshot: the head of
\* the destination branch is no longer the commit origin/<dest> resolved to
StalePushes ==
  {i \in OpIndices : /\ IsBranchPush(ops[i])
                     /\ ops[i].ns = "heads"
                     /\ ops[i].before # NULL
                     /\ ops[i].seen # ops[i].before}

\* C25 as stated: when a third party has added a commit to a destination
\* branch after the clone and before the push, the push is rejected or the
\* commit stays reachable from the head of the destination branch.
C25_ThirdPartyCommitSurvives ==
  \A i \in StalePushes :
    \/ ~ops[i].ok
    \/ ops[i].before \in Ancestors(ops[i].after)

\* C30: in single-branch mode, for every combination of a destination
\* commit, a source commit and a merge base, each possibly absent, syncBranches
\* and syncBranchesGerrit take the same decision among abort, push without
\* --force and push with --force; only the namespace of the refspec differs
\* (refs/heads/<dest> against refs/for/<dest>).
C30_SameDecisionInBothFlows ==
  answer.fn = "syncBranchesGerrit"
    => /\ answer.standard.action = answer.gerrit.action
       /\ answer.standard.ns = "heads"
       /\ answer.gerrit.ns = "for"

C30_Witness ==
  /\ answer.fn = "syncBranchesGerrit"
  /\ probe.destCommit # NULL
  /\ probe.sourceCommit # NULL
  /\ probe.spawned
  /\ probe.stdout \notin {"", probe.destCommit}
  /\ answer.standard.action = "abort"
  /\ answer.gerrit.action = "abort"

====
